---- MODULE Spec2Model ----
(***************************************************************************)
(* Model of the Android .so analysis scripts of JinGuBang                  *)
(* (src/android_so_analyzer.py, src/check_android_so.py).                  *)
(*                                                                         *)
(* The scripts run external tools (readelf -S, objdump -p, readelf -l,     *)
(* strings) on a shared object and classify the text the tools print.     *)
(* Text is modelled as TLA+ strings handled character by character, so    *)
(* that substring tests, whitespace splitting and number parsing are      *)
(* computed the way the Python code computes them.                         *)
(***************************************************************************)
EXTENDS Integers, Sequences, FiniteSets, TLC

VARIABLES
    pc,                 \* position of the run inside the analysis
    so_sections,        \* section table of the analysed file (rows, in order)
    so_first_index,     \* section index of the first row printed
    so_header,          \* which heading lines readelf -S prints before the rows
    readelf_S,          \* outcome of running readelf -S ("ok", "nonzero", "unavailable")
    section_info,       \* results['section_info']
    hash_style,         \* results['hash_style']
    relocation_packing, \* results['relocation_packing']
    file_size,          \* size of the analysed file in bytes
    so_segments,        \* program headers of the analysed file (in order)
    objdump_p,          \* outcome of running objdump -p
    readelf_l,          \* outcome of running readelf -l
    readelf_l_form,     \* layout of the readelf -l rows
    file_cmd,           \* outcome of running file ("ok", "unavailable")
    alignment,          \* results['alignment']
    so_strings,         \* printable strings embedded in the analysed file (in order)
    strings_cmd,        \* outcome of running strings
    year,               \* datetime.now().year
    ndk_version,        \* results['ndk_version']
    path_kind,          \* what the path argument names ("missing", "not_so", "so")
    ndk_root,           \* whether NDK_ROOT is set in the environment
    nm_cmd,             \* outcome of running nm -D
    readelf_d,          \* outcome of running readelf -d
    readelf_h,          \* outcome of running readelf -h
    compact,            \* args.compact
    output,             \* whether args.output is given
    results,            \* what analyze_so_file returned to main, or the exception it raised
    sys_stdout,         \* lines printed so far
    exit_status,        \* exit status of the process (-1 while it runs)
    files,              \* the file system: content of each path, or that it is absent
    align_args,         \* the arguments of align_so_file: file_path, alignment, output_path
    align_result,       \* what align_so_file returned to main
    llvm_readelf        \* whether find_llvm_readelf finds the tool

sectionVars == <<so_sections, so_first_index, so_header, readelf_S,
                 section_info, hash_style, relocation_packing>>
alignVars == <<file_size, so_segments, objdump_p, readelf_l, readelf_l_form,
               file_cmd, alignment>>
ndkVars == <<so_strings, strings_cmd, year, ndk_version>>
cliVars == <<files, align_args, align_result, llvm_readelf>>
runInputs == <<path_kind, ndk_root, nm_cmd, readelf_d, readelf_h, compact, output, cliVars>>
runVars == <<runInputs, results, sys_stdout, exit_status>>
vars == <<pc, sectionVars, alignVars, ndkVars, runVars>>

(***************************************************************************)
(* Bounds of the model.                                                    *)
(***************************************************************************)
MaxRows == 2            \* rows of the section table printed by readelf -S
MaxSegs == 2            \* program headers printed by objdump -p / readelf -l
MaxStrings == 2         \* embedded strings printed by strings (mixed corpora)
MaxMajor == 19          \* largest compiler major version in the version sweep
MaxMinor == 9           \* largest compiler minor version in the version sweep

(***************************************************************************)
(* Python string primitives.                                               *)
(***************************************************************************)
Ch(s, i) == SubSeq(s, i, i)

WS == {" ", "\t", "\n", "\r"}

\* pat in s
Contains(s, pat) ==
    \E i \in 1..(Len(s) - Len(pat) + 1) : SubSeq(s, i, i + Len(pat) - 1) = pat

RECURSIVE FirstNonWS(_, _)
FirstNonWS(s, i) ==
    IF i > Len(s) \/ Ch(s, i) \notin WS THEN i ELSE FirstNonWS(s, i + 1)

RECURSIVE LastNonWS(_, _)
LastNonWS(s, j) ==
    IF j < 1 \/ Ch(s, j) \notin WS THEN j ELSE LastNonWS(s, j - 1)

RECURSIVE FirstWS(_, _)
FirstWS(s, i) ==
    IF i > Len(s) \/ Ch(s, i) \in WS THEN i ELSE FirstWS(s, i + 1)

\* s.strip()
str_strip(s) ==
    LET b == FirstNonWS(s, 1)
        e == LastNonWS(s, Len(s))
    IN  IF b > e THEN "" ELSE SubSeq(s, b, e)

RECURSIVE SplitFrom(_, _)
SplitFrom(s, i) ==
    LET b == FirstNonWS(s, i)
    IN  IF b > Len(s) THEN <<>>
        ELSE LET e == FirstWS(s, b)
             IN  <<SubSeq(s, b, e - 1)>> \o SplitFrom(s, e)

\* s.split(): split on runs of whitespace, no empty tokens
str_split(s) == SplitFrom(s, 1)

\* Least index k >= i with s[k] = c, or Len(s) + 1 when there is none.
IndexOfFrom(s, c, i) ==
    LET hits == {k \in i..Len(s) : Ch(s, k) = c}
    IN  IF hits = {} THEN Len(s) + 1
        ELSE CHOOSE m \in hits : \A x \in hits : m <= x

RECURSIVE SplitLinesFrom(_, _)
SplitLinesFrom(s, start) ==
    IF start > Len(s) THEN <<>>
    ELSE LET nl == IndexOfFrom(s, "\n", start)
         IN  <<SubSeq(s, start, nl - 1)>> \o SplitLinesFrom(s, nl + 1)

\* s.splitlines()
str_splitlines(s) == SplitLinesFrom(s, 1)

RECURSIVE StripCharsLeft(_, _, _)
StripCharsLeft(s, chars, i) ==
    IF i > Len(s) \/ Ch(s, i) \notin chars THEN i ELSE StripCharsLeft(s, chars, i + 1)

RECURSIVE StripCharsRight(_, _, _)
StripCharsRight(s, chars, j) ==
    IF j < 1 \/ Ch(s, j) \notin chars THEN j ELSE StripCharsRight(s, chars, j - 1)

\* s.strip(chars)
str_strip_chars(s, chars) ==
    LET b == StripCharsLeft(s, chars, 1)
        e == StripCharsRight(s, chars, Len(s))
    IN  IF b > e THEN "" ELSE SubSeq(s, b, e)

\* Position of character c in alphabet, counted from 0; -1 when absent.
DigitIndex(alphabet, c) ==
    IF \E k \in 1..Len(alphabet) : Ch(alphabet, k) = c
    THEN (CHOOSE k \in 1..Len(alphabet) : Ch(alphabet, k) = c) - 1
    ELSE -1

HexDigitVal(c) ==
    LET lo == DigitIndex("0123456789abcdef", c)
    IN  IF lo >= 0 THEN lo ELSE DigitIndex("0123456789ABCDEF", c)

\* Outcome of int(...) when Python raises ValueError.
ValueError == -1

RECURSIVE HexAcc(_, _, _)
HexAcc(s, i, acc) ==
    IF i > Len(s) THEN acc
    ELSE LET d == HexDigitVal(Ch(s, i))
         IN  IF d < 0 THEN ValueError ELSE HexAcc(s, i + 1, acc * 16 + d)

\* int(s, 16) for a token without surrounding whitespace, sign or underscores
int16(s) ==
    LET body == IF Len(s) >= 2 /\ SubSeq(s, 1, 2) \in {"0x", "0X"}
                THEN SubSeq(s, 3, Len(s)) ELSE s
    IN  IF Len(body) = 0 THEN ValueError ELSE HexAcc(body, 1, 0)

\* Decimal digit and the "%2d" column readelf uses inside the brackets.
Digit(d) == Ch("0123456789", d + 1)
Pad2(n) == IF n < 10 THEN " " \o Digit(n) ELSE Digit(n \div 10) \o Digit(n % 10)

(***************************************************************************)
(* The section table of the analysed file and the text readelf -S prints   *)
(* for it: `[idx] name type address offset size entsize flags link info    *)
(* align`, the index right-aligned in two columns.                         *)
(***************************************************************************)
SectionRows == {
    [name |-> ".gnu.hash", type |-> "GNU_HASH", addr |-> "0000000000002068",
     off |-> "002068", size |-> "000224", es |-> "00", rest |-> "A 3 0 8"],
    [name |-> ".hash", type |-> "HASH", addr |-> "00002290",
     off |-> "002290", size |-> "0000a8", es |-> "04", rest |-> "A 3 0 4"],
    [name |-> ".hash", type |-> "HASH", addr |-> "00002290",
     off |-> "002290", size |-> "000400", es |-> "04", rest |-> "A 3 0 4"],
    [name |-> ".rela.dyn", type |-> "RELA", addr |-> "00002338",
     off |-> "002338", size |-> "0000d8", es |-> "18", rest |-> "A 3 0 8"],
    [name |-> ".rela.dyn", type |-> "ANDROID_RELA", addr |-> "00002338",
     off |-> "002338", size |-> "000021", es |-> "01", rest |-> "A 3 0 8"],
    [name |-> ".relr.dyn", type |-> "RELR", addr |-> "00002410",
     off |-> "002410", size |-> "000010", es |-> "08", rest |-> "A 0 0 8"],
    [name |-> ".rel.dyn", type |-> "REL", addr |-> "00002420",
     off |-> "002420", size |-> "000040", es |-> "00", rest |-> "A 3 0 4"],
    [name |-> ".rela.plt", type |-> "RELA", addr |-> "00002460",
     off |-> "002460", size |-> "000048", es |-> "18", rest |-> "AI 3 20 8"],
    [name |-> ".text", type |-> "PROGBITS", addr |-> "00003000",
     off |-> "003000", size |-> "001000", es |-> "00", rest |-> "AX 0 0 16"] }

FirstIndexes == {6, 10}
HeaderKinds == {"none", "title", "full"}
ToolStatus == {"ok", "nonzero", "unavailable"}

\* Section tables: up to MaxRows rows with pairwise distinct names.
SectionTables ==
    { t \in UNION { [1..n -> SectionRows] : n \in 0..MaxRows } :
        \A i, j \in DOMAIN t : i # j => t[i].name # t[j].name }

\* Lines that are no complete row: "short" breaks off after the address,
\* "six" after the size, "nobracket" prints the index without brackets.
BrokenRows == {
    [name |-> ".dynsym", type |-> "DYNSYM", addr |-> "000002a8",
     off |-> "0002a8", size |-> "000330", es |-> "18", rest |-> "A 4 1 8", form |-> "short"],
    [name |-> ".dynstr", type |-> "STRTAB", addr |-> "000005d8",
     off |-> "0005d8", size |-> "0001c4", es |-> "00", rest |-> "A 0 0 1", form |-> "six"],
    [name |-> ".rodata", type |-> "PROGBITS", addr |-> "00001000",
     off |-> "001000", size |-> "000100", es |-> "00", rest |-> "A 0 0 8", form |-> "nobracket"] }

WholeRows == { r \in SectionRows : r.name \in {".text", ".rel.dyn"} }

\* Texts of up to MaxRows + 1 lines, complete rows and broken lines mixed.
LineTables == UNION { [1..n -> WholeRows \cup BrokenRows] : n \in 0..(MaxRows + 1) }

RowForm(r) == IF "form" \in DOMAIN r THEN r.form ELSE "whole"

RowText(idx, r) ==
    CASE RowForm(r) = "whole" ->
            "[" \o Pad2(idx) \o "] " \o r.name \o " " \o r.type \o " " \o r.addr \o " "
                \o r.off \o " " \o r.size \o " " \o r.es \o " " \o r.rest
      [] RowForm(r) = "short" ->
            "[" \o Pad2(idx) \o "] " \o r.name \o " " \o r.type \o " " \o r.addr
      [] RowForm(r) = "six" ->
            "[" \o Pad2(idx) \o "] " \o r.name \o " " \o r.type \o " " \o r.addr \o " "
                \o r.off \o " " \o r.size
      [] RowForm(r) = "nobracket" ->
            Pad2(idx) \o " " \o r.name \o " " \o r.type \o " " \o r.addr \o " "
                \o r.off \o " " \o r.size \o " " \o r.es \o " " \o r.rest

RECURSIVE RowsText(_, _, _)
RowsText(t, first, k) ==
    IF k > Len(t) THEN ""
    ELSE "  " \o RowText(first + k - 1, t[k]) \o "\n" \o RowsText(t, first, k + 1)

HeaderText(h) ==
    CASE h = "none"  -> ""
      [] h = "title" -> "Section Headers:\n"
      [] h = "full"  -> "Section Headers:\n  [Nr] Name Type Address Off Size ES Flg Lk Inf Al\n"

\* stdout of `readelf -S file`
ReadelfS_stdout == HeaderText(so_header) \o RowsText(so_sections, so_first_index, 1)

(***************************************************************************)
(* get_section_info: parse the rows of readelf -S.                         *)
(***************************************************************************)
NotRun == [notrun |-> TRUE]
EmptyDict == [x \in {} |-> 0]

\* is_section_row accepting rows before the Section Headers title as well.
is_section_row_anywhere(header_found, line) ==
    Len(line) > 0 /\ Ch(line, 1) = "[" /\ Contains(line, "]")

\* `header_found and line and line[0] == '[' and ']' in line`
is_section_row(header_found, line) ==
    header_found /\ Len(line) > 0 /\ Ch(line, 1) = "[" /\ Contains(line, "]")

RECURSIVE ParseSectionLines(_, _, _)
ParseSectionLines(lines, k, header_found) ==
    IF k > Len(lines) THEN <<>>
    ELSE LET line == str_strip(lines[k])
         IN  IF Contains(line, "Section Headers:")
             THEN ParseSectionLines(lines, k + 1, TRUE)
             ELSE LET rest == ParseSectionLines(lines, k + 1, header_found)
                  IN  IF is_section_row(header_found, line)
                      THEN LET parts == str_split(line)
                           IN  IF Len(parts) >= 7
                               THEN <<[index   |-> str_strip_chars(parts[1], {"[", "]"}),
                                       name    |-> parts[2],
                                       type    |-> parts[3],
                                       address |-> parts[4],
                                       offset  |-> parts[5],
                                       size    |-> parts[6]]>> \o rest
                               ELSE rest
                      ELSE rest

\* section_sizes after the first n sections: a later row of the same name
\* replaces an earlier one, a size that is not hexadecimal is skipped.
RECURSIVE SectionSizes(_, _)
SectionSizes(sections, n) ==
    IF n = 0 THEN EmptyDict
    ELSE LET prev == SectionSizes(sections, n - 1)
             size == int16(sections[n].size)
             name == sections[n].name
         IN  IF size = ValueError THEN prev
             ELSE [x \in DOMAIN prev \cup {name} |->
                       IF x = name THEN size ELSE prev[x]]

RECURSIVE TotalSize(_, _)
TotalSize(sections, n) ==
    IF n = 0 THEN 0
    ELSE LET size == int16(sections[n].size)
         IN  TotalSize(sections, n - 1) + (IF size = ValueError THEN 0 ELSE size)

get_section_info(status, stdout) ==
    IF status = "unavailable" THEN [error |-> "Error analyzing sections"]
    ELSE IF status # "ok" THEN [error |-> "Error getting section info"]
    ELSE LET sections == ParseSectionLines(str_splitlines(stdout), 1, FALSE)
         IN  [total_sections |-> Len(sections),
              total_size     |-> TotalSize(sections, Len(sections)),
              section_sizes  |-> SectionSizes(sections, Len(sections)),
              sections       |-> sections]

(***************************************************************************)
(* check_hash_style                                                        *)
(***************************************************************************)
\* HashVerdict testing for .gnu.hash before testing for both tables.
HashVerdict_gnu_first(has_gnu_hash, has_sysv_hash) ==
    IF has_gnu_hash
    THEN [hash_style |-> "gnu", compatibility |-> ">=23 (Android 6.0+)",
          description |-> "{4EC5}{4F7F}{7528}GNU{54C8}{5E0C}{8868} (Android 6.0+)",
          recommendation |-> "Android 5.x support needs --hash-style=both",
          link_flag |-> "-Wl,--hash-style=gnu"]
    ELSE IF has_sysv_hash
    THEN [hash_style |-> "sysv", compatibility |-> "all",
          description |-> "{4EC5}{4F7F}{7528}SysV{54C8}{5E0C}{8868} ({4F20}{7EDF}{683C}{5F0F})",
          recommendation |-> "minSdk >= 23: prefer --hash-style=gnu",
          link_flag |-> "-Wl,--hash-style=sysv"]
    ELSE [hash_style |-> "unknown", compatibility |-> "unknown",
          description |-> "{672A}{68C0}{6D4B}{5230}{54C8}{5E0C}{8868}",
          recommendation |-> "check the file is a valid shared library",
          link_flag |-> "unknown"]

HashVerdict(has_gnu_hash, has_sysv_hash) ==
    IF has_gnu_hash /\ has_sysv_hash
    THEN [hash_style |-> "both", compatibility |-> "all",
          description |-> "{540C}{65F6}{4F7F}{7528}GNU{548C}SysV{54C8}{5E0C}{8868} ({517C}{5BB9}{6240}{6709}Android{7248}{672C})",
          recommendation |-> "minSdk >= 23: --hash-style=gnu reduces size",
          link_flag |-> "-Wl,--hash-style=both"]
    ELSE IF has_gnu_hash
    THEN [hash_style |-> "gnu", compatibility |-> ">=23 (Android 6.0+)",
          description |-> "{4EC5}{4F7F}{7528}GNU{54C8}{5E0C}{8868} (Android 6.0+)",
          recommendation |-> "Android 5.x support needs --hash-style=both",
          link_flag |-> "-Wl,--hash-style=gnu"]
    ELSE IF has_sysv_hash
    THEN [hash_style |-> "sysv", compatibility |-> "all",
          description |-> "{4EC5}{4F7F}{7528}SysV{54C8}{5E0C}{8868} ({4F20}{7EDF}{683C}{5F0F})",
          recommendation |-> "minSdk >= 23: prefer --hash-style=gnu",
          link_flag |-> "-Wl,--hash-style=sysv"]
    ELSE [hash_style |-> "unknown", compatibility |-> "unknown",
          description |-> "{672A}{68C0}{6D4B}{5230}{54C8}{5E0C}{8868}",
          recommendation |-> "check the file is a valid shared library",
          link_flag |-> "unknown"]

has_gnu_hash_of(stdout) == Contains(stdout, ".gnu.hash")
has_sysv_hash_of(stdout) == Contains(stdout, ".hash")

\* check_hash_style without the test of the exit status.
check_hash_style_unchecked(status, stdout) ==
    [hash_style     |-> HashVerdict(has_gnu_hash_of(stdout), has_sysv_hash_of(stdout)).hash_style,
     compatibility  |-> HashVerdict(has_gnu_hash_of(stdout), has_sysv_hash_of(stdout)).compatibility,
     description    |-> HashVerdict(has_gnu_hash_of(stdout), has_sysv_hash_of(stdout)).description,
     recommendation |-> HashVerdict(has_gnu_hash_of(stdout), has_sysv_hash_of(stdout)).recommendation,
     has_gnu_hash   |-> has_gnu_hash_of(stdout),
     has_sysv_hash  |-> has_sysv_hash_of(stdout),
     link_flag      |-> HashVerdict(has_gnu_hash_of(stdout), has_sysv_hash_of(stdout)).link_flag]

check_hash_style(status, stdout) ==
    IF status # "ok" THEN [error |-> "Error analyzing hash style"]
    ELSE LET has_gnu_hash == has_gnu_hash_of(stdout)
             has_sysv_hash == has_sysv_hash_of(stdout)
             v == HashVerdict(has_gnu_hash, has_sysv_hash)
         IN  [hash_style     |-> v.hash_style,
              compatibility  |-> v.compatibility,
              description    |-> v.description,
              recommendation |-> v.recommendation,
              has_gnu_hash   |-> has_gnu_hash,
              has_sysv_hash  |-> has_sysv_hash,
              link_flag      |-> v.link_flag]

(***************************************************************************)
(* check_relocation_packing                                                *)
(***************************************************************************)
DictGet(d, k) == IF k \in DOMAIN d THEN d[k] ELSE 0

\* rel_size_of forgetting the .rel.dyn section.
rel_size_of_rela_only(info) ==
    IF "section_sizes" \in DOMAIN info
    THEN DictGet(info.section_sizes, ".rela.dyn")
    ELSE 0

rel_size_of(info) ==
    IF "section_sizes" \in DOMAIN info
    THEN DictGet(info.section_sizes, ".rel.dyn") + DictGet(info.section_sizes, ".rela.dyn")
    ELSE 0

relr_size_of(info) ==
    IF "section_sizes" \in DOMAIN info
    THEN DictGet(info.section_sizes, ".relr.dyn")
    ELSE 0

RelocVerdict(has_relr, has_traditional) ==
    IF has_relr
    THEN [relocation_packing |-> "android", compatibility |-> ">=23 (Android 6.0+)",
          description |-> "{4F7F}{7528}{4E86}Android{91CD}{5B9A}{4F4D}{8868}{538B}{7F29}",
          recommendation |-> "{4FDD}{6301}{73B0}{72B6}{FF0C}{5DF2}{4F7F}{7528}{4F18}{5316}",
          link_flag |-> "-Wl,--pack-dyn-relocs=android"]
    ELSE IF has_traditional
    THEN [relocation_packing |-> "none", compatibility |-> "all",
          description |-> "{4F7F}{7528}{4F20}{7EDF}{91CD}{5B9A}{4F4D}{8868}",
          recommendation |-> "minSdk >= 23: prefer --pack-dyn-relocs=android",
          link_flag |-> "--pack-dyn-relocs=android not used"]
    ELSE [relocation_packing |-> "unknown", compatibility |-> "unknown",
          description |-> "{672A}{68C0}{6D4B}{5230}{91CD}{5B9A}{4F4D}{8868}",
          recommendation |-> "check the file is a valid shared library",
          link_flag |-> "unknown"]

check_relocation_packing(status, stdout) ==
    IF status # "ok" THEN [error |-> "Error analyzing relocation packing"]
    ELSE LET has_relr == Contains(stdout, ".relr.dyn")
             has_traditional_rel == Contains(stdout, ".rel.dyn")
             has_traditional_rela == Contains(stdout, ".rela.dyn")
             info == get_section_info(status, stdout)
             v == RelocVerdict(has_relr, has_traditional_rel \/ has_traditional_rela)
         IN  [relocation_packing  |-> v.relocation_packing,
              compatibility       |-> v.compatibility,
              description         |-> v.description,
              recommendation      |-> v.recommendation,
              has_relr            |-> has_relr,
              has_traditional_rel |-> has_traditional_rel \/ has_traditional_rela,
              rel_size            |-> rel_size_of(info),
              relr_size           |-> relr_size_of(info),
              link_flag           |-> v.link_flag]

SectionsIdle ==
    /\ so_sections = <<>>
    /\ so_first_index = 10
    /\ so_header = "title"
    /\ readelf_S = "ok"
    /\ section_info = NotRun
    /\ hash_style = NotRun
    /\ relocation_packing = NotRun

AlignIdle ==
    /\ file_size = 16384
    /\ so_segments = <<>>
    /\ objdump_p = "ok"
    /\ readelf_l = "ok"
    /\ readelf_l_form = "table"
    /\ file_cmd = "ok"
    /\ alignment = NotRun

NdkIdle ==
    /\ so_strings = <<>>
    /\ strings_cmd = "ok"
    /\ year = 2024
    /\ ndk_version = NotRun

\* The --align mode and the option checker are not running.
CliIdle ==
    /\ files = EmptyDict
    /\ align_args = NotRun
    /\ align_result = NotRun
    /\ llvm_readelf = TRUE

\* A run of the analysis is not under way.
AnalysisIdle ==
    /\ path_kind = "so"
    /\ ndk_root = TRUE
    /\ nm_cmd = "ok"
    /\ readelf_d = "ok"
    /\ readelf_h = "ok"
    /\ compact = FALSE
    /\ output = FALSE
    /\ results = NotRun
    /\ sys_stdout = <<>>
    /\ exit_status = -1

RunIdle == CliIdle /\ AnalysisIdle

(***************************************************************************)
(* The section part of analyze_so_file: the three analyses of readelf -S,  *)
(* in the order of the results dictionary.                                 *)
(***************************************************************************)
InitSections ==
    /\ pc = "section_info"
    /\ so_sections \in SectionTables
    /\ so_first_index \in FirstIndexes
    /\ so_header \in HeaderKinds
    /\ readelf_S \in ToolStatus
    /\ section_info = NotRun
    /\ hash_style = NotRun
    /\ relocation_packing = NotRun
    /\ AlignIdle
    /\ NdkIdle
    /\ RunIdle

GetSectionInfo ==
    /\ pc = "section_info"
    /\ section_info' = get_section_info(readelf_S, ReadelfS_stdout)
    /\ pc' = "hash_style"
    /\ UNCHANGED <<so_sections, so_first_index, so_header, readelf_S,
                   hash_style, relocation_packing>>
    /\ UNCHANGED <<alignVars, ndkVars, runVars>>

CheckHashStyle ==
    /\ pc = "hash_style"
    /\ hash_style' = check_hash_style(readelf_S, ReadelfS_stdout)
    /\ pc' = "relocation_packing"
    /\ UNCHANGED <<so_sections, so_first_index, so_header, readelf_S,
                   section_info, relocation_packing>>
    /\ UNCHANGED <<alignVars, ndkVars, runVars>>

CheckRelocationPacking ==
    /\ pc = "relocation_packing"
    /\ relocation_packing' = check_relocation_packing(readelf_S, ReadelfS_stdout)
    /\ pc' = "sections_done"
    /\ UNCHANGED <<so_sections, so_first_index, so_header, readelf_S,
                   section_info, hash_style>>
    /\ UNCHANGED <<alignVars, ndkVars, runVars>>

NextSections == GetSectionInfo \/ CheckHashStyle \/ CheckRelocationPacking

SpecSections == InitSections /\ [][NextSections]_vars

(***************************************************************************)
(* Properties of the section analyses.                                     *)
(***************************************************************************)
HashStyleDone == pc \in {"relocation_packing", "sections_done"}
                    /\ "hash_style" \in DOMAIN hash_style
RelocDone == pc = "sections_done" /\ "relocation_packing" \in DOMAIN relocation_packing
SectionInfoDone == pc # "section_info" /\ "sections" \in DOMAIN section_info

HasRowNamed(n) == \E k \in DOMAIN so_sections : so_sections[k].name = n

\* C1: text whose only hash-section row is a .gnu.hash row is classified
\* gnu, and text with both a .hash row and a .gnu.hash row is classified both.
C1_HashStyleFromText ==
    HashStyleDone =>
        /\ (HasRowNamed(".gnu.hash") /\ ~HasRowNamed(".hash")
                => hash_style.hash_style = "gnu")
        /\ (HasRowNamed(".gnu.hash") /\ HasRowNamed(".hash")
                => hash_style.hash_style = "both")

\* C2: the verdict is the decision table applied to the pair
\* (has_gnu_hash, has_sysv_hash) of the result, and the compatibility tier
\* and the link flag are fixed by the verdict; the sizes of the sections
\* play no part.
C2_VerdictIsDecisionTable ==
    HashStyleDone =>
        /\ hash_style.hash_style =
              (CASE hash_style.has_gnu_hash /\ ~hash_style.has_sysv_hash -> "gnu"
                 [] hash_style.has_gnu_hash /\ hash_style.has_sysv_hash -> "both"
                 [] ~hash_style.has_gnu_hash /\ hash_style.has_sysv_hash -> "sysv"
                 [] OTHER -> "unknown")
        /\ hash_style.compatibility =
              (CASE hash_style.hash_style \in {"both", "sysv"} -> "all"
                 [] hash_style.hash_style = "gnu" -> ">=23 (Android 6.0+)"
                 [] OTHER -> "unknown")
        /\ hash_style.link_flag =
              (CASE hash_style.hash_style = "unknown" -> "unknown"
                 [] OTHER -> "-Wl,--hash-style=" \o hash_style.hash_style)
        /\ hash_style.recommendation =
              (CASE hash_style.hash_style = "both" -> "minSdk >= 23: --hash-style=gnu reduces size"
                 [] hash_style.hash_style = "gnu" -> "Android 5.x support needs --hash-style=both"
                 [] hash_style.hash_style = "sysv" -> "minSdk >= 23: prefer --hash-style=gnu"
                 [] OTHER -> "check the file is a valid shared library")

\* Witness of C2: both tables present, the .hash section larger than the
\* .gnu.hash section, and the verdict computed.
C2_Witness ==
    /\ HashStyleDone
    /\ \E i, j \in DOMAIN so_sections :
          /\ so_sections[i].name = ".hash" /\ so_sections[j].name = ".gnu.hash"
          /\ int16(so_sections[i].size) > int16(so_sections[j].size)
    /\ hash_style.hash_style = "both"

\* C3: every row `[idx] name type address offset size entsize ...` printed
\* under the Section Headers title is parsed into a section carrying the
\* row's name, its type and its hexadecimal size, also when the bracketed
\* index contains a space.
C3_RowFieldsParsed ==
    (SectionInfoDone /\ so_header # "none") =>
        \A k \in DOMAIN so_sections :
            \E n \in DOMAIN section_info.sections :
                /\ section_info.sections[n].name = so_sections[k].name
                /\ section_info.sections[n].type = so_sections[k].type
                /\ int16(section_info.sections[n].size) = int16(so_sections[k].size)

AndroidTypes == {"ANDROID_REL", "ANDROID_RELA"}
TraditionalNames == {".rel.dyn", ".rel.plt", ".rela.dyn", ".rela.plt"}

RowHasRelr == \E k \in DOMAIN so_sections : Contains(so_sections[k].name, ".relr.dyn")
RowHasAndroidRel ==
    \E k \in DOMAIN so_sections :
        \/ Contains(so_sections[k].name, "android.rel")
        \/ so_sections[k].type \in AndroidTypes
RowHasTraditionalRel ==
    \E k \in DOMAIN so_sections :
        /\ so_sections[k].name \in TraditionalNames
        /\ so_sections[k].type \notin AndroidTypes

\* C7: a .relr.dyn section or an Android-packed relocation section gives the
\* verdict android; otherwise a traditional relocation section gives none;
\* otherwise the verdict is the no-relocations one (the code's label for it
\* is `unknown`).
C7_RelocationPrecedence ==
    RelocDone =>
        relocation_packing.relocation_packing =
            (IF RowHasRelr \/ RowHasAndroidRel THEN "android"
             ELSE IF RowHasTraditionalRel THEN "none"
             ELSE "unknown")

IsRelocationName(n) == n \in {".rel.dyn", ".rela.dyn", ".relr.dyn"}

\* C8 as stated: a relocation section whose entry size is 0 contributes
\* nothing to the reported size totals, whatever its size.
C8_ZeroEntrySizeExcluded ==
    (RelocDone /\ \A k \in DOMAIN so_sections :
                      IsRelocationName(so_sections[k].name) => int16(so_sections[k].es) = 0)
        => relocation_packing.rel_size = 0 /\ relocation_packing.relr_size = 0

\* A row reaches section_sizes under its own name when the Section Headers
\* title precedes it and its bracketed index is printed without a space.
RowKeptUnderName(k) == so_header # "none" /\ so_first_index + k - 1 >= 10

RECURSIVE SizeSum(_, _)
SizeSum(names, k) ==
    IF k = 0 THEN 0
    ELSE SizeSum(names, k - 1)
         + (IF so_sections[k].name \in names /\ RowKeptUnderName(k)
            THEN int16(so_sections[k].size) ELSE 0)

\* C8 amended: rel_size is the sum of the byte sizes of the sections that
\* section_sizes holds under the names .rel.dyn and .rela.dyn, and relr_size
\* the size held under .relr.dyn, whatever the entry size of the section.
C8_SizesIgnoreEntrySize ==
    RelocDone =>
        /\ relocation_packing.rel_size
              = SizeSum({".rel.dyn", ".rela.dyn"}, Len(so_sections))
        /\ relocation_packing.relr_size = SizeSum({".relr.dyn"}, Len(so_sections))

\* Witness of C8: a .rel.dyn section with entry size 0 and a .rela.dyn
\* section are both counted in rel_size.
C8_Witness ==
    /\ RelocDone
    /\ \E i, j \in DOMAIN so_sections :
          /\ so_sections[i].name = ".rel.dyn" /\ int16(so_sections[i].es) = 0
          /\ so_sections[j].name = ".rela.dyn"
          /\ relocation_packing.rel_size
                = int16(so_sections[i].size) + int16(so_sections[j].size)

(***************************************************************************)
(* Program headers of the analysed file and the text the tools print.      *)
(***************************************************************************)
RECURSIVE Pow2(_)
Pow2(n) == IF n = 0 THEN 1 ELSE 2 * Pow2(n - 1)

RECURSIVE Dec(_)
Dec(n) == IF n < 10 THEN Digit(n) ELSE Dec(n \div 10) \o Digit(n % 10)

RECURSIVE Hex(_)
Hex(n) == IF n < 16 THEN Ch("0123456789abcdef", n + 1)
          ELSE Hex(n \div 16) \o Ch("0123456789abcdef", (n % 16) + 1)

\* A program header: its type, log2 of p_align, and how objdump prints it:
\* "full" is objdump's own layout, "spec" the bare one-line layout, "noalign"
\* a line on which the align field is missing.
Segments == {
    [kind |-> "LOAD", power |-> 12, form |-> "full"],
    [kind |-> "LOAD", power |-> 14, form |-> "full"],
    [kind |-> "LOAD", power |-> 16, form |-> "full"],
    [kind |-> "LOAD", power |-> 14, form |-> "spec"],
    [kind |-> "LOAD", power |-> 14, form |-> "noalign"],
    [kind |-> "DYNAMIC", power |-> 3, form |-> "full"] }

SegmentTables == UNION { [1..n -> Segments] : n \in 0..MaxSegs }

FileSizes == {16384, 20000, 65536, 70000}
ReadelfLForms == {"table", "keyed"}

\* p_align of a program header.  The ELF format leaves the field free: a
\* header of form "odd" carries 3 * 2^(power - 2), which objdump rounds up to
\* 2**power and readelf prints as it is.
p_align(g) == IF g.form = "odd" THEN 3 * Pow2(g.power - 2) ELSE Pow2(g.power)

\* Program headers beyond the layouts objdump itself prints: a p_align that
\* is no power of two, and LOAD lines on which `off`, `vaddr` or both are
\* missing.
OddSegments == {
    [kind |-> "LOAD", power |-> 14, form |-> "odd"],
    [kind |-> "LOAD", power |-> 16, form |-> "nooff"],
    [kind |-> "LOAD", power |-> 16, form |-> "novaddr"],
    [kind |-> "LOAD", power |-> 16, form |-> "alignonly"] }

OddSegmentTables == UNION { [1..n -> Segments \cup OddSegments] : n \in 0..MaxSegs }

ObjdumpLine(g) ==
    CASE g.form = "full" ->
            "    " \o g.kind \o " off    0x00000000 vaddr 0x00000000 paddr 0x00000000 align 2**"
              \o Dec(g.power) \o "\n         filesz 0x00000a10 memsz 0x00000a10 flags r-x\n"
      [] g.form = "spec" ->
            g.kind \o " off 0x0000000000000000 vaddr 0x0000000000000000 align 2**"
              \o Dec(g.power) \o "\n"
      [] g.form = "noalign" ->
            "    " \o g.kind \o " off    0x00000000 vaddr 0x00000000 paddr 0x00000000\n"
      [] g.form = "odd" ->
            "    " \o g.kind \o " off    0x00000000 vaddr 0x00000000 paddr 0x00000000 align 2**"
              \o Dec(g.power) \o "\n         filesz 0x00000a10 memsz 0x00000a10 flags r-x\n"
      [] g.form = "nooff" ->
            g.kind \o " vaddr 0x0000000000000000 align 2**" \o Dec(g.power) \o "\n"
      [] g.form = "novaddr" ->
            g.kind \o " off 0x0000000000000000 align 2**" \o Dec(g.power) \o "\n"
      [] g.form = "alignonly" ->
            g.kind \o " align 2**" \o Dec(g.power) \o "\n"

RECURSIVE ObjdumpLines(_, _)
ObjdumpLines(t, k) ==
    IF k > Len(t) THEN "" ELSE ObjdumpLine(t[k]) \o ObjdumpLines(t, k + 1)

\* stdout of `objdump -p file`
ObjdumpP_stdout == "Program Header:\n" \o ObjdumpLines(so_segments, 1)

\* readelf -l prints the alignment as the last column of the row ("table");
\* the "keyed" layout writes the column name in front of the value.
ReadelfLLine(g, form) ==
    "  " \o g.kind \o " 0x000000 0x00000000 0x00000000 0x00a10 0x00a10 R E "
         \o (IF form = "keyed" THEN "Align " ELSE "") \o "0x" \o Hex(p_align(g)) \o "\n"

RECURSIVE ReadelfLLines(_, _, _)
ReadelfLLines(t, form, k) ==
    IF k > Len(t) THEN ""
    ELSE ReadelfLLine(t[k], form) \o ReadelfLLines(t, form, k + 1)

\* stdout of `readelf -l file`
ReadelfL_stdout ==
    "Program Headers:\n  Type Offset VirtAddr PhysAddr FileSiz MemSiz Flg Align\n"
        \o ReadelfLLines(so_segments, readelf_l_form, 1)

(***************************************************************************)
(* check_alignment                                                         *)
(***************************************************************************)
NoMatch == "<no match>"

RECURSIVE SpanEnd(_, _, _)
\* Least index >= i whose character is not in alphabet (a string).
SpanEnd(s, alphabet, i) ==
    IF i > Len(s) \/ DigitIndex(alphabet, Ch(s, i)) < 0 THEN i
    ELSE SpanEnd(s, alphabet, i + 1)

\* Group 1 of the match of  key \s+ prefix [alphabet]+  that starts at i;
\* withPrefix tells whether the prefix belongs to the group.
MatchKeyedAt(s, i, key, prefix, alphabet, withPrefix) ==
    IF SubSeq(s, i, i + Len(key) - 1) # key THEN NoMatch
    ELSE LET j == FirstNonWS(s, i + Len(key))
             d == j + Len(prefix)
             e == SpanEnd(s, alphabet, d)
         IN  IF j > i + Len(key) /\ j + Len(prefix) - 1 <= Len(s)
                /\ SubSeq(s, j, d - 1) = prefix /\ e > d
             THEN SubSeq(s, IF withPrefix THEN j ELSE d, e - 1)
             ELSE NoMatch

\* re.search(key \s+ prefix ([alphabet]+), s).group(1): leftmost match
SearchKeyed(s, key, prefix, alphabet, withPrefix) ==
    LET starts == {i \in 1..(Len(s) - Len(key) + 1) :
                      MatchKeyedAt(s, i, key, prefix, alphabet, withPrefix) # NoMatch}
    IN  IF starts = {} THEN NoMatch
        ELSE MatchKeyedAt(s, CHOOSE m \in starts : \A x \in starts : m <= x,
                          key, prefix, alphabet, withPrefix)

RECURSIVE DecAcc(_, _, _)
DecAcc(s, i, acc) ==
    IF i > Len(s) THEN acc
    ELSE DecAcc(s, i + 1, acc * 10 + DigitIndex("0123456789", Ch(s, i)))

\* int(s) for a string of decimal digits
int10(s) == DecAcc(s, 1, 0)

zip_alignments == <<16384, 65536>>

RECURSIVE FirstDividing(_, _)
\* index of the first alignment dividing size, 0 when there is none
FirstDividing(size, k) ==
    IF k > Len(zip_alignments) THEN 0
    ELSE IF size % zip_alignments[k] = 0 THEN k ELSE FirstDividing(size, k + 1)

RECURSIVE ClosestAlign(_, _, _)
\* best is <<min_remainder, best_align>>; -1 stands for float('inf')
ClosestAlign(size, k, best) ==
    IF k > Len(zip_alignments) THEN best
    ELSE LET remainder == size % zip_alignments[k]
         IN  IF best[1] = -1 \/ remainder < best[1]
             THEN ClosestAlign(size, k + 1, <<remainder, zip_alignments[k]>>)
             ELSE ClosestAlign(size, k + 1, best)

ZipAlignment(size) ==
    LET k == FirstDividing(size, 1)
    IN  IF k > 0
        THEN [alignment |-> "0x" \o Hex(zip_alignments[k]),
              alignment_bytes |-> zip_alignments[k],
              alignment_human |-> Dec(zip_alignments[k] \div 1024) \o "KB",
              is_aligned |-> TRUE,
              purpose |-> "APK{538B}{7F29}{4F18}{5316}",
              benefit |-> "{51CF}{5C11}{5185}{5B58}{6620}{5C04}{5F00}{9500}"]
        ELSE LET best == ClosestAlign(size, 1, <<-1, 0>>)
             IN  [alignment |-> "0x" \o Hex(best[2]),
                  alignment_bytes |-> best[2],
                  alignment_human |-> Dec(best[2] \div 1024) \o "KB",
                  is_aligned |-> FALSE,
                  remainder |-> best[1],
                  purpose |-> "APK{538B}{7F29}{4F18}{5316}",
                  benefit |-> "{51CF}{5C11}{5185}{5B58}{6620}{5C04}{5F00}{9500}",
                  recommendation |-> "{5EFA}{8BAE}{586B}{5145} " \o Dec(best[1]) \o " {5B57}{8282}{4EE5}{8FBE}{5230} "
                                        \o Dec(best[2] \div 1024) \o "KB {5BF9}{9F50}"]

\* Assessment with the thresholds taken as strict inequalities.
Assessment_strict(align_value) ==
    IF align_value > 65536 THEN "Excellent (64K alignment)"
    ELSE IF align_value > 16384 THEN "Very Good (16K alignment)"
    ELSE IF align_value > 4096 THEN "Good (4K alignment)"
    ELSE IF align_value > 1024 THEN "Acceptable (1K alignment)"
    ELSE "Sub-optimal"

Assessment(align_value) ==
    IF align_value >= 65536 THEN "Excellent (64K alignment)"
    ELSE IF align_value >= 16384 THEN "Very Good (16K alignment)"
    ELSE IF align_value >= 4096 THEN "Good (4K alignment)"
    ELSE IF align_value >= 1024 THEN "Acceptable (1K alignment)"
    ELSE "Sub-optimal"

\* KeepLargest keeping the smallest alignment instead.
KeepSmallest(acc, align_value, fields) ==
    IF acc.max_align = 0 \/ align_value < acc.max_align
    THEN [max_align |-> align_value, found_align |-> TRUE,
          load |-> fields @@ acc.load]
    ELSE acc

\* "save the largest alignment value": the fields of the segment replace
\* the recorded ones only when its alignment exceeds max_align.
KeepLargest(acc, align_value, fields) ==
    IF align_value > acc.max_align
    THEN [max_align |-> align_value, found_align |-> TRUE,
          load |-> fields @@ acc.load]
    ELSE acc

AddRaw(acc, line) ==
    [acc EXCEPT !.load = [raw_info |-> acc.load.raw_info \o line \o "\n"] @@ acc.load]

\* align_match demanding the off and vaddr fields on the line as well.
align_match_all_fields(line) ==
    IF Contains(line, "off") /\ Contains(line, "vaddr")
    THEN SearchKeyed(line, "align", "2**", "0123456789", FALSE)
    ELSE NoMatch

\* re.search(r'align\s+2\*\*(\d+)', line): the digits of the power, or NoMatch.
align_match(line) == SearchKeyed(line, "align", "2**", "0123456789", FALSE)

RECURSIVE ObjdumpScan(_, _, _)
ObjdumpScan(lines, k, acc) ==
    IF k > Len(lines) THEN acc
    ELSE LET line == str_strip(lines[k])
         IN  IF ~Contains(line, "LOAD") THEN ObjdumpScan(lines, k + 1, acc)
             ELSE LET acc1 == AddRaw(acc, line)
                      m == align_match(line)
                  IN  IF m = NoMatch THEN ObjdumpScan(lines, k + 1, acc1)
                      ELSE LET align_power == int10(m)
                               align_value == Pow2(align_power)
                           IN  ObjdumpScan(lines, k + 1,
                                   KeepLargest(acc1, align_value,
                                       [alignment |-> "0x" \o Hex(align_value),
                                        alignment_bytes |-> align_value,
                                        alignment_power |-> align_power]))

RECURSIVE ReadelfScan(_, _, _)
ReadelfScan(lines, k, acc) ==
    IF k > Len(lines) THEN acc
    ELSE LET line == lines[k]
         IN  IF ~Contains(line, "LOAD") THEN ReadelfScan(lines, k + 1, acc)
             ELSE LET acc1 == AddRaw(acc, line)
                      m == SearchKeyed(line, "Align", "0x",
                                       "0123456789abcdefABCDEF", TRUE)
                  IN  IF m = NoMatch THEN ReadelfScan(lines, k + 1, acc1)
                      ELSE ReadelfScan(lines, k + 1,
                               KeepLargest(acc1, int16(m),
                                   [alignment |-> m, alignment_bytes |-> int16(m)]))

ScanStart(load) ==
    [max_align |-> 0, found_align |-> FALSE, load |-> [raw_info |-> ""] @@ load]

WithAssessment(load) ==
    [assessment |-> Assessment(DictGet(load, "alignment_bytes"))] @@ load

FileInfo == "ELF 64-bit LSB shared object, ARM aarch64"

\* HeuristicFallback assuming 16K pages.
HeuristicFallback_16k(load) ==
    [file_info |-> FileInfo, alignment |-> "0x4000", alignment_bytes |-> 16384,
     estimation_method |-> "heuristic"] @@ load

\* Nothing parsed from readelf -l: assume the 4K alignment of most libraries.
HeuristicFallback(load) ==
    [file_info |-> FileInfo, alignment |-> "0x1000", alignment_bytes |-> 4096,
     estimation_method |-> "heuristic"] @@ load

AlignmentError == [error |-> "Error analyzing alignment"]

\* The readelf -l part, entered with the load_alignment left by the objdump part.
ReadelfPart(zip, size, load0, rl_status, rl_stdout, file_status) ==
    IF rl_status = "unavailable" THEN AlignmentError
    ELSE IF rl_status # "ok"
    THEN IF file_status # "ok" THEN AlignmentError
         ELSE [file_size |-> size, zip_alignment |-> zip,
               load_alignment |-> [file_info |-> FileInfo] @@ load0]
    ELSE LET acc == ReadelfScan(str_splitlines(rl_stdout), 1, ScanStart(load0))
         IN  IF ~acc.found_align /\ file_status # "ok" THEN AlignmentError
             ELSE [file_size |-> size, zip_alignment |-> zip,
                   load_alignment |->
                       WithAssessment(IF acc.found_align THEN acc.load
                                      ELSE HeuristicFallback(acc.load))]

check_alignment(size, od_status, od_stdout, rl_status, rl_stdout, file_status) ==
    LET zip == ZipAlignment(size)
        acc == ObjdumpScan(str_splitlines(od_stdout), 1, ScanStart(EmptyDict))
    IN  IF od_status = "ok" /\ acc.found_align
        THEN [file_size |-> size, zip_alignment |-> zip,
              load_alignment |-> WithAssessment(acc.load)]
        ELSE ReadelfPart(zip, size,
                         IF od_status = "ok" THEN acc.load ELSE EmptyDict,
                         rl_status, rl_stdout, file_status)

InitAlign ==
    /\ pc = "alignment"
    /\ file_size \in FileSizes
    /\ so_segments \in SegmentTables
    /\ objdump_p \in ToolStatus
    /\ readelf_l \in ToolStatus
    /\ readelf_l_form \in ReadelfLForms
    /\ file_cmd \in {"ok", "unavailable"}
    /\ alignment = NotRun
    /\ SectionsIdle
    /\ NdkIdle
    /\ RunIdle

CheckAlignment ==
    /\ pc = "alignment"
    /\ alignment' = check_alignment(file_size, objdump_p, ObjdumpP_stdout,
                                    readelf_l, ReadelfL_stdout, file_cmd)
    /\ pc' = "alignment_done"
    /\ UNCHANGED <<file_size, so_segments, objdump_p, readelf_l, readelf_l_form, file_cmd>>
    /\ UNCHANGED <<sectionVars, ndkVars, runVars>>

NextAlign == CheckAlignment

SpecAlign == InitAlign /\ [][NextAlign]_vars

(***************************************************************************)
(* Properties of the alignment analysis.                                   *)
(***************************************************************************)
AlignDone == pc = "alignment_done" /\ "load_alignment" \in DOMAIN alignment

\* The 16KB verdict: the assessment is one of the two 16K-or-better classes.
Supports16KB ==
    /\ "assessment" \in DOMAIN alignment.load_alignment
    /\ alignment.load_alignment.assessment
           \in {"Excellent (64K alignment)", "Very Good (16K alignment)"}

\* LOAD segments whose line in objdump -p carries an align field.
ObjdumpLoads ==
    {k \in DOMAIN so_segments :
        so_segments[k].kind = "LOAD" /\ so_segments[k].form # "noalign"}

\* LOAD segments whose row in readelf -l carries an `Align 0x..` field.
ReadelfLoads ==
    {k \in DOMAIN so_segments :
        so_segments[k].kind = "LOAD" /\ readelf_l_form = "keyed"}

\* The segments whose alignment the analysis reads: those of objdump -p
\* when it succeeds and prints one, otherwise those of readelf -l.
ParsedLoads ==
    IF objdump_p = "ok" /\ ObjdumpLoads # {} THEN ObjdumpLoads
    ELSE IF readelf_l = "ok" THEN ReadelfLoads
    ELSE {}

\* C4 as stated: the 16KB verdict is the logical AND over the LOAD segments.
C4_VerdictIsConjunction ==
    (AlignDone /\ objdump_p = "ok" /\ ObjdumpLoads # {}) =>
        (Supports16KB <=> \A k \in ObjdumpLoads : so_segments[k].power >= 14)

\* C4 amended: the 16KB verdict is decided by the largest LOAD alignment
\* read: it is true iff some LOAD segment's alignment is >= 16384, and the
\* alignment reported is that largest value.
C4_VerdictIsLargestAlignment ==
    (AlignDone /\ ParsedLoads # {}) =>
        /\ Supports16KB <=> \E k \in ParsedLoads : so_segments[k].power >= 14
        /\ \E k \in ParsedLoads :
              /\ \A j \in ParsedLoads : so_segments[j].power <= so_segments[k].power
              /\ alignment.load_alignment.alignment_bytes = 2 ^ so_segments[k].power

\* Witness of C4: a 4K LOAD segment next to a 16K one, verdict computed.
C4_Witness ==
    /\ AlignDone /\ objdump_p = "ok"
    /\ \E i, j \in ObjdumpLoads : so_segments[i].power = 12 /\ so_segments[j].power = 14
    /\ \A k \in ObjdumpLoads : so_segments[k].power <= 14
    /\ Supports16KB

C6_SingleSegmentAlignment ==
    (AlignDone /\ objdump_p = "ok" /\ Cardinality(ObjdumpLoads) = 1) =>
        \A k \in ObjdumpLoads :
            LET n == so_segments[k].power
                load == alignment.load_alignment
            IN  /\ load.alignment_power = n
                /\ n = 12 => load.alignment_bytes = 4096
                               /\ load.assessment = "Good (4K alignment)"
                               /\ ~Supports16KB
                /\ n = 14 => load.alignment_bytes = 16384
                               /\ load.assessment = "Very Good (16K alignment)"
                               /\ Supports16KB
                /\ n = 16 => load.alignment_bytes = 65536
                               /\ load.assessment = "Excellent (64K alignment)"
                               /\ Supports16KB

\* Witness of C6: the line
\* `LOAD off 0x0000000000000000 vaddr 0x0000000000000000 align 2**14` alone.
C6_Witness ==
    /\ AlignDone /\ objdump_p = "ok"
    /\ so_segments = <<[kind |-> "LOAD", power |-> 14, form |-> "spec"]>>
    /\ alignment.load_alignment.alignment_bytes = 16384
    /\ Supports16KB

(***************************************************************************)
(* The strings embedded in the analysed file and the text `strings` prints.*)
(***************************************************************************)
NoVer == <<0, 0, 0>>

VerText(v) == Dec(v[1]) \o "." \o Dec(v[2]) \o "." \o Dec(v[3])

\* One embedded string: a compiler banner with its version, a toolchain
\* marker with its release id, an API level marker, or something else.
StringText(r) ==
    CASE r.kind = "clang_version" -> "clang version " \o VerText(r.ver)
      [] r.kind = "clang_banner"  ->
            "Android (based on r450784d) clang version " \o VerText(r.ver)
              \o " (llvm-project)"
      [] r.kind = "clang_dash"    -> "clang-" \o VerText(r.ver)
      [] r.kind = "llvm_version"  -> "LLVM version " \o VerText(r.ver)
      [] r.kind = "libllvm"       -> "libLLVM-" \o VerText(r.ver) \o ".so"
      [] OTHER                    -> r.text

CompilerKinds == {"clang_version", "clang_banner", "clang_dash", "llvm_version", "libllvm"}

Marker(k, t) == [kind |-> k, ver |-> NoVer, text |-> t]
Compiler(k, v) == [kind |-> k, ver |-> v, text |-> ""]

MixedStrings == {
    Marker("ndk", "Android NDK r25c"),
    Marker("ndk", "NDK r10e"),
    Marker("ndk", "android-ndk-r9d"),
    Marker("ndk", "/opt/android-ndk-r27/toolchains"),
    Marker("api", "__ANDROID_API__=21"),
    Marker("api", "android-24"),
    Marker("other", "libc.so"),
    Compiler("clang_version", <<17, 0, 2>>),
    Compiler("clang_banner", <<14, 0, 6>>),
    Compiler("clang_dash", <<12, 0, 9>>),
    Compiler("llvm_version", <<9, 0, 9>>),
    Compiler("libllvm", <<3, 8, 256229>>) }

MixedCorpora == UNION { [1..n -> MixedStrings] : n \in 0..MaxStrings }

\* The version sweep: a single `clang version M.m.p` string.
SweepCorpora ==
    { <<Compiler("clang_version", <<M, m, q>>)>> :
        M \in 0..MaxMajor, m \in 0..MaxMinor, q \in {0, 7} }

Years == {2022, 2023, 2024}

RECURSIVE StringsText(_, _)
StringsText(t, k) ==
    IF k > Len(t) THEN "" ELSE StringText(t[k]) \o "\n" \o StringsText(t, k + 1)

\* stdout of `strings file`
Strings_stdout == StringsText(so_strings, 1)

(***************************************************************************)
(* analyze_clang_ndk_version                                               *)
(***************************************************************************)
NDK_CLANG_MAPPING == <<
    [ndk |-> "r27", clang |-> "18.1.0", llvm |-> "18.1.0"],
    [ndk |-> "r26", clang |-> "17.0.2", llvm |-> "17.0.6"],
    [ndk |-> "r25", clang |-> "14.0.7", llvm |-> "14.0.1"],
    [ndk |-> "r24", clang |-> "14.0.1", llvm |-> "14.0.1"],
    [ndk |-> "r23", clang |-> "12.0.9", llvm |-> "12.0.9"],
    [ndk |-> "r22", clang |-> "11.0.5", llvm |-> "11.0.5"],
    [ndk |-> "r21", clang |-> "9.0.9", llvm |-> "9.0.9"],
    [ndk |-> "r20", clang |-> "8.0.7", llvm |-> "8.0.7"],
    [ndk |-> "r19", clang |-> "7.0.2", llvm |-> "7.0.2"],
    [ndk |-> "r18", clang |-> "6.0.2", llvm |-> "6.0.2"],
    [ndk |-> "r17", clang |-> "6.0.2", llvm |-> "6.0.2"],
    [ndk |-> "r16", clang |-> "5.0.300080", llvm |-> "5.0.300080"],
    [ndk |-> "r15", clang |-> "5.0.300080", llvm |-> "5.0.300080"],
    [ndk |-> "r14", clang |-> "4.0.0", llvm |-> "4.0.0"],
    [ndk |-> "r13", clang |-> "3.8.275480", llvm |-> "3.8.275480"],
    [ndk |-> "r12", clang |-> "3.8.256229", llvm |-> "3.8.256229"] >>

Upper == "ABCDEFGHIJKLMNOPQRSTUVWXYZ"
Lower == "abcdefghijklmnopqrstuvwxyz"
Digits == "0123456789"

LowerCh(c) ==
    LET k == DigitIndex(Upper, c)
    IN  IF k >= 0 THEN Ch(Lower, k + 1) ELSE c

\* The literal lit matches s at position i (re.IGNORECASE when ic).
MatchLitAt(s, i, lit, ic) ==
    /\ i + Len(lit) - 1 <= Len(s)
    /\ IF ic
       THEN \A k \in 1..Len(lit) : LowerCh(Ch(s, i + k - 1)) = LowerCh(Ch(lit, k))
       ELSE SubSeq(s, i, i + Len(lit) - 1) = lit

IsLetter(c, ic) == DigitIndex(Lower, c) >= 0 \/ (ic /\ DigitIndex(Upper, c) >= 0)

\* End (exclusive) of the match of a group starting at i, 0 when it fails.
\*   "version": [0-9]+\.[0-9]+\.[0-9]+
\*   "ndk_id" : [a-z][0-9]+[a-z]?
\*   "number" : [0-9]+
GroupEnd(s, i, group, ic) ==
    CASE group = "version" ->
            LET e1 == SpanEnd(s, Digits, i)
                e2 == SpanEnd(s, Digits, e1 + 1)
                e3 == SpanEnd(s, Digits, e2 + 1)
            IN  IF e1 > i /\ e1 <= Len(s) /\ Ch(s, e1) = "."
                   /\ e2 > e1 + 1 /\ e2 <= Len(s) /\ Ch(s, e2) = "."
                   /\ e3 > e2 + 1
                THEN e3 ELSE 0
      [] group = "ndk_id" ->
            LET e == SpanEnd(s, Digits, i + 1)
            IN  IF i <= Len(s) /\ IsLetter(Ch(s, i), ic) /\ e > i + 1
                THEN IF e <= Len(s) /\ IsLetter(Ch(s, e), ic) THEN e + 1 ELSE e
                ELSE 0
      [] group = "number" ->
            LET e == SpanEnd(s, Digits, i)
            IN  IF e > i THEN e ELSE 0

\* re.findall(lit (group), s)[0]: group of the leftmost match, NoMatch if none.
FindFirst(s, lit, group, ic) ==
    LET starts == {i \in 1..Len(s) :
                      MatchLitAt(s, i, lit, ic) /\ GroupEnd(s, i + Len(lit), group, ic) > 0}
    IN  IF starts = {} THEN NoMatch
        ELSE LET i == CHOOSE m \in starts : \A x \in starts : m <= x
             IN  SubSeq(s, i + Len(lit), GroupEnd(s, i + Len(lit), group, ic) - 1)

RECURSIVE FirstOf_last(_, _, _, _, _)
\* FirstOf letting a later pattern of the list win over an earlier one.
FirstOf_last(s, lits, group, ic, k) ==
    IF k > Len(lits) THEN <<0, NoMatch>>
    ELSE IF FirstOf_last(s, lits, group, ic, k + 1)[1] # 0
         THEN FirstOf_last(s, lits, group, ic, k + 1)
         ELSE IF FindFirst(s, lits[k], group, ic) # NoMatch
              THEN <<k, FindFirst(s, lits[k], group, ic)>>
              ELSE <<0, NoMatch>>

RECURSIVE FirstOf(_, _, _, _, _)
\* The first pattern of the list that matches: <<position in list, group>>.
FirstOf(s, lits, group, ic, k) ==
    IF k > Len(lits) THEN <<0, NoMatch>>
    ELSE LET m == FindFirst(s, lits[k], group, ic)
         IN  IF m # NoMatch THEN <<k, m>> ELSE FirstOf(s, lits, group, ic, k + 1)

ndk_direct_patterns == <<"Android NDK ", "NDK ", "android-ndk-">>
clang_patterns == <<"clang version ", "clang-">>
llvm_patterns == <<"LLVM version ", "libLLVM-">>
api_patterns == <<"__ANDROID_API__=", "android-">>

RECURSIVE SplitOnFrom(_, _, _)
SplitOnFrom(s, c, start) ==
    LET e == IndexOfFrom(s, c, start)
    IN  IF e > Len(s) THEN <<SubSeq(s, start, Len(s))>>
        ELSE <<SubSeq(s, start, e - 1)>> \o SplitOnFrom(s, c, e + 1)

\* [int(part) for part in v.split('.')]
version_parts(v) ==
    LET parts == SplitOnFrom(v, ".", 1)
    IN  [k \in DOMAIN parts |-> int10(parts[k])]

Abs(x) == IF x < 0 THEN -x ELSE x

\* version_diff counting the patch number as well.
version_diff_patch(a, b) ==
    Abs(a[1] - b[1]) * 100
      + (IF Len(a) > 1 /\ Len(b) > 1 THEN Abs(a[2] - b[2]) ELSE 0)
      + (IF Len(a) > 2 /\ Len(b) > 2 /\ a[3] # b[3] THEN 1 ELSE 0)

version_diff(a, b) ==
    Abs(a[1] - b[1]) * 100
      + (IF Len(a) > 1 /\ Len(b) > 1 THEN Abs(a[2] - b[2]) ELSE 0)

RECURSIVE Closest_last(_, _, _)
\* Closest letting a later entry at equal distance replace an earlier one.
Closest_last(parts, k, best) ==
    IF k > Len(NDK_CLANG_MAPPING) THEN best
    ELSE LET diff == version_diff(parts, version_parts(NDK_CLANG_MAPPING[k].clang))
         IN  IF best.diff = -1 \/ diff <= best.diff
             THEN Closest_last(parts, k + 1, [ndk |-> NDK_CLANG_MAPPING[k].ndk, diff |-> diff])
             ELSE Closest_last(parts, k + 1, best)

RECURSIVE Closest(_, _, _)
\* The loop over the mapping: best is [ndk, diff], diff = -1 for float('inf').
Closest(parts, k, best) ==
    IF k > Len(NDK_CLANG_MAPPING) THEN best
    ELSE LET diff == version_diff(parts, version_parts(NDK_CLANG_MAPPING[k].clang))
         IN  IF best.diff = -1 \/ diff < best.diff
             THEN Closest(parts, k + 1, [ndk |-> NDK_CLANG_MAPPING[k].ndk, diff |-> diff])
             ELSE Closest(parts, k + 1, best)

\* Certainty with the medium band one unit too narrow.
Certainty_narrow(closest_diff) ==
    IF closest_diff = 0 THEN "high"
    ELSE IF closest_diff < 4 THEN "medium"
    ELSE "low"

Certainty(closest_diff) ==
    IF closest_diff = 0 THEN "high"
    ELSE IF closest_diff < 5 THEN "medium"
    ELSE "low"

\* Code point order of the characters that occur in release ids.
Ord(c) == DigitIndex(Digits \o Upper \o Lower, c)

\* a < b on Python strings
StrLess(a, b) ==
    \E k \in 1..(Len(b)) :
        /\ \A j \in 1..(k - 1) : j <= Len(a) /\ Ch(a, j) = Ch(b, j)
        /\ \/ k = Len(a) + 1
           \/ k <= Len(a) /\ Ord(Ch(a, k)) < Ord(Ch(b, k))

recommended_ndk_for(y) ==
    IF y >= 2024 THEN "r27" ELSE IF y >= 2023 THEN "r26" ELSE "r25"

\* The reason given with the recommended release.
recommended_reason_of(recommended) ==
    IF recommended = "r27" THEN "{6700}{65B0}{7A33}{5B9A}{7248}{672C} (2024{5E74}{63A8}{8350}{7248}{672C})"
    ELSE IF recommended = "r26" THEN "2023{5E74}{63A8}{8350}{7248}{672C}"
    ELSE "{7A33}{5B9A}{957F}{671F}{652F}{6301}{7248}{672C}"

\* The stripped line holding `clang version <v>`, else the reconstructed banner.
ClangVersionFull(content, v) ==
    LET lines == str_splitlines(content)
        hits == {k \in DOMAIN lines : Contains(lines[k], "clang version " \o v)}
    IN  IF hits = {} THEN "clang version " \o v
        ELSE LET full == str_strip(lines[CHOOSE m \in hits : \A x \in hits : m <= x])
             IN  IF full = "" THEN "clang version " \o v ELSE full

\* result.update(...) for a key the code sets only on some paths.
WithKey(cond, extra, result) == IF cond THEN extra @@ result ELSE result

\* ReportedNdk falling back to a release id when nothing was found.
ReportedNdk_default(direct, infer, closest) ==
    IF direct[1] # 0 THEN direct[2]
    ELSE IF infer THEN closest.ndk ELSE "r25"

\* The NDK release reported: the direct marker, else the inferred entry.
ReportedNdk(direct, infer, closest) ==
    IF direct[1] # 0 THEN direct[2]
    ELSE IF infer THEN closest.ndk ELSE "unknown"

\* The keys every successful analysis returns, from what the searches found:
\* direct, clang, llvm, api are <<pattern that matched or 0, group>>.
BaseResult(content, direct, clang, llvm, api, clang_version, infer, closest, recommended) ==
    [clang_version |-> IF clang_version # NoMatch THEN clang_version ELSE "unknown",
     clang_version_full |->
         IF clang[1] # 0 THEN ClangVersionFull(content, clang[2])
         ELSE IF llvm[1] # 0 THEN "inferred from LLVM " \o llvm[2]
         ELSE "unknown",
     ndk_version |-> ReportedNdk(direct, infer, closest),
     ndk_version_certainty |->
         IF direct[1] # 0 THEN "high"
         ELSE IF infer THEN Certainty(closest.diff) ELSE "unknown",
     detection_method |->
         IF direct[1] # 0 THEN "direct"
         ELSE IF infer THEN "clang_inference" ELSE "unknown",
     clang_indicators |->
         IF clang[1] # 0 THEN <<"Found Clang version: " \o clang[2]>>
         ELSE IF llvm[1] # 0 THEN <<"Found LLVM version: " \o llvm[2]>>
         ELSE <<>>,
     ndk_indicators |->
         (IF direct[1] # 0 THEN <<"Found direct NDK version: " \o direct[2]>>
          ELSE IF infer
          THEN <<"Inferred from Clang " \o clang_version \o " (maps to NDK "
                   \o closest.ndk \o ", certainty: " \o Certainty(closest.diff) \o ")">>
          ELSE <<>>)
         \o (IF api[1] # 0 THEN <<"Found Android API level: " \o api[2]>> ELSE <<>>),
     recommended_ndk |-> recommended,
     recommended_reason |-> recommended_reason_of(recommended)]

\* The optional keys: llvm_version, android_api_level, upgrade_recommendation.
NdkResult(content, direct, clang, llvm, api, clang_version, infer, closest, recommended) ==
    WithKey(ReportedNdk(direct, infer, closest) # "unknown"
              /\ StrLess(ReportedNdk(direct, infer, closest), recommended),
            [upgrade_recommendation |-> "upgrade to NDK " \o recommended],
        WithKey(api[1] # 0, [android_api_level |-> api[2]],
            WithKey(llvm[1] # 0, [llvm_version |-> llvm[2]],
                BaseResult(content, direct, clang, llvm, api,
                           clang_version, infer, closest, recommended))))

\* InferNdk taking the release recommended for the year as the inferred one.
InferNdk_by_year(content, direct, clang, llvm, api, clang_version, infer, y) ==
    NdkResult(content, direct, clang, llvm, api, clang_version, infer,
              IF infer
              THEN [ndk |-> recommended_ndk_for(y), diff |-> 0]
              ELSE [ndk |-> "", diff |-> -1],
              recommended_ndk_for(y))

\* The inference from the compiler version, made when no direct marker was found.
InferNdk(content, direct, clang, llvm, api, clang_version, infer, y) ==
    NdkResult(content, direct, clang, llvm, api, clang_version, infer,
              IF infer
              THEN Closest(version_parts(clang_version), 1, [ndk |-> "", diff |-> -1])
              ELSE [ndk |-> "", diff |-> -1],
              recommended_ndk_for(y))

\* The compiler version: clang's when found, else LLVM's.
DetectCompiler(content, direct, clang, llvm, api, y) ==
    InferNdk(content, direct, clang, llvm, api,
             IF clang[1] # 0 THEN clang[2] ELSE llvm[2],
             (IF clang[1] # 0 THEN clang[2] ELSE llvm[2]) # NoMatch /\ direct[1] = 0,
             y)

\* The LLVM patterns are searched only when no clang pattern matched.
SearchLlvm(content, direct, clang, api, y) ==
    DetectCompiler(content, direct, clang,
                   IF clang[1] = 0
                   THEN FirstOf(content, llvm_patterns, "version", TRUE, 1)
                   ELSE <<0, NoMatch>>,
                   api, y)

analyze_clang_ndk_version(status, content, y) ==
    IF status = "unavailable" THEN [error |-> "Error analyzing Clang/NDK version"]
    ELSE IF status # "ok" THEN [error |-> "Error extracting strings from file"]
    ELSE SearchLlvm(content,
                    FirstOf(content, ndk_direct_patterns, "ndk_id", TRUE, 1),
                    FirstOf(content, clang_patterns, "version", TRUE, 1),
                    FirstOf(content, api_patterns, "number", FALSE, 1),
                    y)

InitNdk ==
    /\ pc = "ndk_version"
    /\ so_strings \in MixedCorpora \cup SweepCorpora
    /\ strings_cmd \in ToolStatus
    /\ year \in Years
    /\ ndk_version = NotRun
    /\ SectionsIdle
    /\ AlignIdle
    /\ RunIdle

AnalyzeClangNdkVersion ==
    /\ pc = "ndk_version"
    /\ ndk_version' = analyze_clang_ndk_version(strings_cmd, Strings_stdout, year)
    /\ pc' = "ndk_version_done"
    /\ UNCHANGED <<so_strings, strings_cmd, year>>
    /\ UNCHANGED <<sectionVars, alignVars, runVars>>

NextNdk == AnalyzeClangNdkVersion

SpecNdk == InitNdk /\ [][NextNdk]_vars

(***************************************************************************)
(* Properties of the toolchain inference.                                  *)
(***************************************************************************)
NdkDone == pc = "ndk_version_done" /\ "ndk_version" \in DOMAIN ndk_version

NdkMarkers == {k \in DOMAIN so_strings : so_strings[k].kind = "ndk"}
CompilerStrings == {k \in DOMAIN so_strings : so_strings[k].kind \in CompilerKinds}

\* The corpus holds no direct NDK marker and exactly one compiler version.
OnlyCompilerVersion == NdkMarkers = {} /\ Cardinality(CompilerStrings) = 1

\* That compiler version, as <<major, minor, patch>>.
FoundVersion == so_strings[CHOOSE k \in CompilerStrings : TRUE].ver

Entries == 1..Len(NDK_CLANG_MAPPING)

\* |dmajor| * 100 + |dminor| between version v and the reference of entry e.
Distance(v, e) ==
    LET ref == version_parts(NDK_CLANG_MAPPING[e].clang)
    IN  Abs(v[1] - ref[1]) * 100 + Abs(v[2] - ref[2])

MinDistance(v) ==
    CHOOSE d \in {Distance(v, e) : e \in Entries} :
        \A e \in Entries : d <= Distance(v, e)

\* C9: the inferred NDK is the table entry at minimal distance from the
\* compiler version found, the first such entry in table order; a corpus
\* with `clang version 17.0.2` gives r26 with certainty high.
C9_ClosestEntryFirstInTableOrder ==
    (NdkDone /\ OnlyCompilerVersion) =>
        /\ \E e \in Entries :
              /\ ndk_version.ndk_version = NDK_CLANG_MAPPING[e].ndk
              /\ \A j \in Entries : Distance(FoundVersion, e) <= Distance(FoundVersion, j)
              /\ \A j \in Entries :
                    j < e => Distance(FoundVersion, j) > Distance(FoundVersion, e)
        /\ FoundVersion = <<17, 0, 2>> =>
              /\ ndk_version.ndk_version = "r26"
              /\ ndk_version.ndk_version_certainty = "high"

\* Witness of C9: clang 13.0 lies at distance 100 from r25, r24 and r23;
\* the first of them in table order is inferred.
C9_Witness ==
    /\ NdkDone /\ OnlyCompilerVersion
    /\ FoundVersion[1] = 13 /\ FoundVersion[2] = 0
    /\ ndk_version.detection_method = "clang_inference"
    /\ ndk_version.ndk_version = "r25"

SameMajorMinorGap(v, gaps) ==
    \E e \in Entries :
        LET ref == version_parts(NDK_CLANG_MAPPING[e].clang)
        IN  v[1] = ref[1] /\ Abs(v[2] - ref[2]) \in gaps

\* C10: the certainty of an inferred NDK is high at distance 0, medium at
\* distance 1..4 and low from 5 on, with method clang_inference: a version
\* equal to a reference gives high, one whose minor differs from a
\* reference by exactly 4 gives medium, by 5 or more gives low.
C10_CertaintyFromDistance ==
    (NdkDone /\ OnlyCompilerVersion) =>
        LET d == MinDistance(FoundVersion)
            certainty == ndk_version.ndk_version_certainty
        IN  /\ ndk_version.detection_method = "clang_inference"
            /\ d = 0 => certainty = "high"
            /\ d \in 1..4 => certainty = "medium"
            /\ d >= 5 => certainty = "low"
            /\ SameMajorMinorGap(FoundVersion, {0}) => certainty = "high"
            /\ SameMajorMinorGap(FoundVersion, {4}) => certainty = "medium"
            /\ SameMajorMinorGap(FoundVersion, 5..(MaxMinor + 8)) => certainty = "low"

\* Witness of C10: clang 17.4 differs from the reference of r26 in minor by
\* exactly 4 and is inferred with certainty medium.
C10_Witness ==
    /\ NdkDone /\ OnlyCompilerVersion
    /\ FoundVersion[1] = 17 /\ FoundVersion[2] = 4
    /\ ndk_version.ndk_version = "r26"
    /\ ndk_version.ndk_version_certainty = "medium"

(***************************************************************************)
(* Direct detection, absence of data and the inputs the result depends on. *)
(***************************************************************************)
\* The direct pattern (position in ndk_direct_patterns) an NDK marker string
\* is written for, and the release id it carries.
DirectPatternOf(text) ==
    CASE text = "Android NDK r25c" -> 1
      [] text = "NDK r10e" -> 2
      [] OTHER -> 3

DirectIdOf(text) ==
    CASE text = "Android NDK r25c" -> "r25c"
      [] text = "NDK r10e" -> "r10e"
      [] text = "android-ndk-r9d" -> "r9d"
      [] OTHER -> "r27"

\* The marker the direct phase must report: earliest pattern of the list
\* first, then the leftmost occurrence in the corpus.
FirstDirectMarker ==
    CHOOSE k \in NdkMarkers :
        \A j \in NdkMarkers :
            \/ DirectPatternOf(so_strings[k].text) < DirectPatternOf(so_strings[j].text)
            \/ /\ DirectPatternOf(so_strings[k].text) = DirectPatternOf(so_strings[j].text)
               /\ k <= j

InferredIndicators ==
    {k \in DOMAIN ndk_version.ndk_indicators :
        SubSeq(ndk_version.ndk_indicators[k], 1, 8) = "Inferred"}

C12_NoDataIsUnknown ==
    (pc = "ndk_version_done" /\ strings_cmd = "ok"
       /\ NdkMarkers = {} /\ CompilerStrings = {}) =>
        /\ "error" \notin DOMAIN ndk_version
        /\ ndk_version.ndk_version = "unknown"
        /\ ndk_version.ndk_version_certainty = "unknown"
        /\ ndk_version.detection_method = "unknown"
        /\ ndk_version.clang_version = "unknown"
        /\ "upgrade_recommendation" \notin DOMAIN ndk_version

\* Witness of C12: the corpus holds only a library name and an API level
\* marker; the API level is reported and the NDK stays unknown.
C12_Witness ==
    /\ pc = "ndk_version_done" /\ strings_cmd = "ok"
    /\ Len(so_strings) = 2
    /\ so_strings[1].text = "libc.so"
    /\ so_strings[2].text = "android-24"
    /\ ndk_version.ndk_version = "unknown"
    /\ ndk_version.android_api_level = "24"

\* (ndk_version, certainty, method) of a result; an error result has none.
Triple(r) ==
    IF "error" \in DOMAIN r THEN <<"error">>
    ELSE <<r.ndk_version, r.ndk_version_certainty, r.detection_method>>

\* C13: the triple (ndk_version, certainty, method) is the same whatever the
\* current year: the result of the run equals, on the triple, the result of
\* a run over the same corpus in any other year.
C13_TripleIndependentOfDate ==
    pc = "ndk_version_done" =>
        \A y \in Years :
            Triple(ndk_version)
              = Triple(analyze_clang_ndk_version(strings_cmd, Strings_stdout, y))

\* Witness of C13: clang 14.0 run in 2024 is inferred r25 and advised to
\* upgrade; run in 2022 the result differs, but not on the triple.
C13_Witness ==
    /\ NdkDone /\ year = 2024
    /\ ndk_version.ndk_version = "r25"
    /\ ndk_version.detection_method = "clang_inference"
    /\ "upgrade_recommendation" \in DOMAIN ndk_version
    /\ analyze_clang_ndk_version(strings_cmd, Strings_stdout, 2022) # ndk_version

(***************************************************************************)
(* The analyses of analyze_so_file that read the file through a tool,      *)
(* taken in any order: each runs once, on the same file and tools.         *)
(***************************************************************************)
\* Files the analyses are run on: section table, segments, size and strings.
ClassifierFiles == {
    [sections |-> <<[name |-> ".gnu.hash", type |-> "GNU_HASH", addr |-> "0000000000002068",
                     off |-> "002068", size |-> "000224", es |-> "00", rest |-> "A 3 0 8"],
                    [name |-> ".rela.dyn", type |-> "RELA", addr |-> "00002338",
                     off |-> "002338", size |-> "0000d8", es |-> "18", rest |-> "A 3 0 8"]>>,
     first_index |-> 10, header |-> "title",
     segments |-> <<[kind |-> "LOAD", power |-> 14, form |-> "full"]>>,
     form |-> "table", size |-> 16384,
     strings |-> <<Compiler("clang_version", <<17, 0, 2>>)>>],
    [sections |-> <<[name |-> ".hash", type |-> "HASH", addr |-> "00002290",
                     off |-> "002290", size |-> "0000a8", es |-> "04", rest |-> "A 3 0 4"],
                    [name |-> ".relr.dyn", type |-> "RELR", addr |-> "00002410",
                     off |-> "002410", size |-> "000010", es |-> "08", rest |-> "A 0 0 8"]>>,
     first_index |-> 10, header |-> "title",
     segments |-> <<[kind |-> "LOAD", power |-> 12, form |-> "full"],
                    [kind |-> "DYNAMIC", power |-> 3, form |-> "full"]>>,
     form |-> "keyed", size |-> 20000,
     strings |-> <<Marker("ndk", "Android NDK r25c"), Marker("api", "android-24")>>],
    [sections |-> <<>>, first_index |-> 6, header |-> "none",
     segments |-> <<>>, form |-> "table", size |-> 70000,
     strings |-> <<Marker("other", "libc.so")>>] }

InitClassifiers ==
    /\ pc = "classifiers"
    /\ \E f \in ClassifierFiles :
          /\ so_sections = f.sections
          /\ so_first_index = f.first_index
          /\ so_header = f.header
          /\ so_segments = f.segments
          /\ readelf_l_form = f.form
          /\ file_size = f.size
          /\ so_strings = f.strings
    /\ readelf_S \in ToolStatus
    /\ objdump_p \in ToolStatus
    /\ readelf_l \in ToolStatus
    /\ file_cmd \in {"ok", "unavailable"}
    /\ strings_cmd \in ToolStatus
    /\ year = 2024
    /\ alignment = NotRun
    /\ section_info = NotRun
    /\ hash_style = NotRun
    /\ relocation_packing = NotRun
    /\ ndk_version = NotRun
    /\ RunIdle

\* What no analysis writes: the file, the tools and what main keeps.
classifierInputs ==
    <<pc, so_sections, so_first_index, so_header, readelf_S, file_size, so_segments,
      objdump_p, readelf_l, readelf_l_form, file_cmd, so_strings, strings_cmd, year,
      runVars>>

AnyCheckAlignment ==
    /\ pc = "classifiers" /\ alignment = NotRun
    /\ alignment' = check_alignment(file_size, objdump_p, ObjdumpP_stdout,
                                    readelf_l, ReadelfL_stdout, file_cmd)
    /\ UNCHANGED <<classifierInputs, section_info, hash_style, relocation_packing, ndk_version>>

AnyGetSectionInfo ==
    /\ pc = "classifiers" /\ section_info = NotRun
    /\ section_info' = get_section_info(readelf_S, ReadelfS_stdout)
    /\ UNCHANGED <<classifierInputs, alignment, hash_style, relocation_packing, ndk_version>>

AnyCheckHashStyle ==
    /\ pc = "classifiers" /\ hash_style = NotRun
    /\ hash_style' = check_hash_style(readelf_S, ReadelfS_stdout)
    /\ UNCHANGED <<classifierInputs, alignment, section_info, relocation_packing, ndk_version>>

\* AnyCheckRelocationPacking taking the sizes from the section_info entry of
\* the results instead of running get_section_info itself.
AnyCheckRelocationPacking_shared ==
    /\ pc = "classifiers" /\ relocation_packing = NotRun
    /\ relocation_packing' =
          IF "rel_size" \in DOMAIN check_relocation_packing(readelf_S, ReadelfS_stdout)
          THEN [check_relocation_packing(readelf_S, ReadelfS_stdout)
                  EXCEPT !.rel_size = rel_size_of(section_info),
                         !.relr_size = relr_size_of(section_info)]
          ELSE check_relocation_packing(readelf_S, ReadelfS_stdout)
    /\ UNCHANGED <<classifierInputs, alignment, section_info, hash_style, ndk_version>>

AnyCheckRelocationPacking ==
    /\ pc = "classifiers" /\ relocation_packing = NotRun
    /\ relocation_packing' = check_relocation_packing(readelf_S, ReadelfS_stdout)
    /\ UNCHANGED <<classifierInputs, alignment, section_info, hash_style, ndk_version>>

AnyAnalyzeClangNdkVersion ==
    /\ pc = "classifiers" /\ ndk_version = NotRun
    /\ ndk_version' = analyze_clang_ndk_version(strings_cmd, Strings_stdout, year)
    /\ UNCHANGED <<classifierInputs, alignment, section_info, hash_style, relocation_packing>>

NextClassifiers ==
    \/ AnyCheckAlignment
    \/ AnyGetSectionInfo
    \/ AnyCheckHashStyle
    \/ AnyCheckRelocationPacking
    \/ AnyAnalyzeClangNdkVersion

SpecClassifiers == InitClassifiers /\ [][NextClassifiers]_vars

(***************************************************************************)
(* Properties of the analyses taken together.                              *)
(***************************************************************************)
Ran(result) == result # NotRun
Failed(result) == "error" \in DOMAIN result

\* Every tool the alignment analysis may call succeeds.
AlignToolsOk == objdump_p = "ok" /\ readelf_l = "ok" /\ file_cmd = "ok"

\* C14: when readelf -S exits non-zero, the hash style and the relocation
\* packing analyses both report the tool failure, while the alignment and
\* the toolchain analyses, whose own tools succeed, give their results.
C14_FailureIsolation ==
    (pc = "classifiers" /\ readelf_S = "nonzero") =>
        /\ Ran(hash_style) => hash_style = [error |-> "Error analyzing hash style"]
        /\ Ran(relocation_packing) =>
              relocation_packing = [error |-> "Error analyzing relocation packing"]
        /\ (Ran(alignment) /\ AlignToolsOk) =>
              /\ ~Failed(alignment)
              /\ "assessment" \in DOMAIN alignment.load_alignment
              /\ ParsedLoads # {} =>
                    \E k \in ParsedLoads :
                        /\ \A j \in ParsedLoads : so_segments[j].power <= so_segments[k].power
                        /\ alignment.load_alignment.alignment_bytes = 2 ^ so_segments[k].power
        /\ (Ran(ndk_version) /\ strings_cmd = "ok") =>
              /\ ~Failed(ndk_version)
              /\ NdkMarkers # {} => ndk_version.detection_method = "direct"
              /\ (NdkMarkers = {} /\ CompilerStrings # {}) =>
                    ndk_version.detection_method = "clang_inference"

\* Witness of C14: readelf -S failed, all four analyses ran; the two
\* section analyses hold errors, alignment and toolchain hold verdicts.
C14_Witness ==
    /\ pc = "classifiers" /\ readelf_S = "nonzero"
    /\ Failed(hash_style) /\ Failed(relocation_packing)
    /\ Ran(alignment) /\ ~Failed(alignment)
    /\ "assessment" \in DOMAIN alignment.load_alignment
    /\ alignment.load_alignment.assessment = "Very Good (16K alignment)"
    /\ Ran(ndk_version) /\ ~Failed(ndk_version)
    /\ ndk_version.ndk_version = "r26"

\* C16 as stated: a tool failure or an absent fact leaves the analysis with
\* an error message and without a verdict; no failure is dropped and no
\* verdict is guessed.
C16_FailureKeepsErrorMessage ==
    pc = "classifiers" =>
        /\ (Ran(hash_style) /\ readelf_S # "ok") => Failed(hash_style)
        /\ (Ran(relocation_packing) /\ readelf_S # "ok") => Failed(relocation_packing)
        /\ (Ran(ndk_version) /\ strings_cmd # "ok") => Failed(ndk_version)
        /\ (Ran(alignment) /\ objdump_p # "ok") =>
              \/ Failed(alignment)
              \/ "error" \in DOMAIN alignment.load_alignment
        /\ (Ran(alignment) /\ ~Failed(alignment) /\ ParsedLoads = {}) =>
              "assessment" \notin DOMAIN alignment.load_alignment

\* C20: whatever the order in which the analyses are taken, each result is
\* the one the sequential order of analyze_so_file gives for the same file
\* and tools, and a result once written is not changed by a later analysis.
C20_OrderIndependent ==
    pc = "classifiers" =>
        /\ Ran(alignment) =>
              alignment = check_alignment(file_size, objdump_p, ObjdumpP_stdout,
                                          readelf_l, ReadelfL_stdout, file_cmd)
        /\ Ran(section_info) => section_info = get_section_info(readelf_S, ReadelfS_stdout)
        /\ Ran(hash_style) => hash_style = check_hash_style(readelf_S, ReadelfS_stdout)
        /\ Ran(relocation_packing) =>
              relocation_packing = check_relocation_packing(readelf_S, ReadelfS_stdout)
        /\ Ran(ndk_version) =>
              ndk_version = analyze_clang_ndk_version(strings_cmd, Strings_stdout, year)

\* Witness of C20: the relocation analysis ran before get_section_info and
\* after the toolchain analysis, and reports the size of .rela.dyn.
C20_Witness ==
    /\ pc = "classifiers"
    /\ ~Ran(section_info) /\ ~Ran(alignment) /\ ~Ran(hash_style)
    /\ Ran(ndk_version)
    /\ Ran(relocation_packing) /\ ~Failed(relocation_packing)
    /\ relocation_packing.rel_size = 216

(***************************************************************************)
(* A run of main on one path: analyze_so_file, then the report.            *)
(* Characters outside ASCII in the program's texts are written as their    *)
(* code point in braces: "{5BF9}{9F50}" is the text 对齐.                  *)
(***************************************************************************)
\* f"{n / d:.2f}" for d a power of two: the quotient is exact in binary
\* floating point, and formatting rounds it half to even.
Fixed2(n, d) ==
    LET q == (n * 100) \div d
        r == (n * 100) % d
        h == IF 2 * r > d \/ (2 * r = d /\ q % 2 = 1) THEN q + 1 ELSE q
    IN  Dec(h \div 100) \o "." \o Digit((h % 100) \div 10) \o Digit(h % 10)

format_size(size_bytes) ==
    IF size_bytes < 1024 THEN Fixed2(size_bytes, 1) \o " B"
    ELSE IF size_bytes < 1024 * 1024 THEN Fixed2(size_bytes, 1024) \o " KB"
    ELSE IF size_bytes < 1024 * 1024 * 1024 THEN Fixed2(size_bytes, 1024 * 1024) \o " MB"
    ELSE Fixed2(size_bytes, 1024 * 1024 * 1024) \o " GB"

FileName == "libdemo.so"

\* The digests stand for the hashes of the file's bytes.
get_file_basic_info(size) ==
    [file_name |-> FileName,
     file_path |-> "/data/" \o FileName,
     file_size |-> [bytes |-> size, human_readable |-> format_size(size)],
     modified_time |-> "2024-01-01 00:00:00",
     md5    |-> "9e107d9d372bb6826bd81d3542a419d6",
     sha1   |-> "2fd4e1c67a2d28fced849ee1bb76e7391b93eb12",
     sha256 |-> "d7a8fbb307d7809469ca9abcb0082e4f8d5651e46d3cdb762d02d0bf37c9e592"]

\* An exception that leaves the function that raised it.
Raised(exception) == [raised |-> exception]

get_so_architecture(file_status) ==
    IF file_status = "unavailable" THEN Raised("FileNotFoundError")
    ELSE IF file_status # "ok" THEN [error |-> "Error getting architecture info"]
    ELSE [file_info |-> FileInfo,
          architecture |->
              IF Contains(FileInfo, "ARM aarch64") THEN "arm64-v8a"
              ELSE IF Contains(FileInfo, "ARM,") THEN "armeabi-v7a"
              ELSE IF Contains(FileInfo, "Intel 80386") THEN "x86"
              ELSE IF Contains(FileInfo, "x86-64") THEN "x86_64"
              ELSE "unknown"]

\* The files analysed export no dynamic symbol: nm -D prints nothing.
Nm_stdout == ""

RECURSIVE JoinFrom(_, _)
\* ' '.join(parts[k - 1:])
JoinFrom(parts, k) ==
    IF k > Len(parts) THEN ""
    ELSE IF k = Len(parts) THEN parts[k]
    ELSE parts[k] \o " " \o JoinFrom(parts, k + 1)

RECURSIVE NmSymbols(_, _)
\* the symbols of the lines of nm from line k on
NmSymbols(lines, k) ==
    IF k > Len(lines) THEN <<>>
    ELSE LET parts == str_split(lines[k])
         IN  IF str_strip(lines[k]) # "" /\ Len(parts) >= 3
             THEN <<[address |-> parts[1], type |-> parts[2], name |-> JoinFrom(parts, 3)]>>
                      \o NmSymbols(lines, k + 1)
             ELSE IF str_strip(lines[k]) # "" /\ Len(parts) = 2
             THEN <<[address |-> "N/A", type |-> parts[1], name |-> parts[2]]>>
                      \o NmSymbols(lines, k + 1)
             ELSE NmSymbols(lines, k + 1)

get_exported_symbols(has_ndk_root, file_status, nm_status, nm_stdout, defined_stdout) ==
    IF ~has_ndk_root THEN [error |-> "NDK_ROOT{73AF}{5883}{53D8}{91CF}{672A}{8BBE}{7F6E}"]
    ELSE IF file_status = "unavailable" \/ nm_status = "unavailable"
    THEN [error |-> "Error analyzing symbols"]
    ELSE IF nm_status # "ok" THEN [error |-> "Error getting symbols"]
    ELSE [total_symbols |-> Len(NmSymbols(str_splitlines(nm_stdout), 1)),
          total_exported_symbols |-> Len(NmSymbols(str_splitlines(defined_stdout), 1)),
          symbol_stats_list |-> <<>>,
          exported_symbol_stats_list |-> <<>>,
          symbols |-> NmSymbols(str_splitlines(nm_stdout), 1),
          exported_symbols |-> NmSymbols(str_splitlines(defined_stdout), 1)]

\* The libraries the dynamic section of the analysed files names.
Needed == <<"libc.so", "liblog.so">>

RECURSIVE NeededLines(_)
NeededLines(k) ==
    IF k > Len(Needed) THEN ""
    ELSE " 0x0000000000000001 (NEEDED)             Shared library: [" \o Needed[k] \o "]\n"
             \o NeededLines(k + 1)

ReadelfD_stdout ==
    "Dynamic section at offset 0x2d10 contains 24 entries:\n"
        \o "  Tag        Type                         Name/Value\n"
        \o NeededLines(1)
        \o " 0x000000000000000e (SONAME)             Library soname: [" \o FileName \o "]\n"

\* s.find(c): the index of the first c counted from 0, -1 when there is none
str_find(s, c) ==
    IF IndexOfFrom(s, c, 1) > Len(s) THEN -1 ELSE IndexOfFrom(s, c, 1) - 1

RECURSIVE DependencyNames(_, _)
DependencyNames(lines, k) ==
    IF k > Len(lines) THEN <<>>
    ELSE LET line == lines[k]
             lib_start == str_find(line, "[") + 1
             lib_end == str_find(line, "]")
         IN  IF /\ Contains(line, "NEEDED") /\ Contains(line, "Shared library")
                /\ lib_start > 0 /\ lib_end > lib_start
             THEN <<SubSeq(line, lib_start + 1, lib_end)>> \o DependencyNames(lines, k + 1)
             ELSE DependencyNames(lines, k + 1)

get_dependencies(has_ndk_root, file_status, status, stdout) ==
    IF (has_ndk_root /\ file_status = "unavailable") \/ status = "unavailable"
    THEN [error |-> "Error analyzing dependencies"]
    ELSE IF status # "ok" THEN [error |-> "Error getting dependencies"]
    ELSE [total_dependencies |-> Len(DependencyNames(str_splitlines(stdout), 1)),
          dependencies |-> DependencyNames(str_splitlines(stdout), 1)]

ReadelfH_stdout ==
    "ELF Header:\n"
        \o "  Class:                             ELF64\n"
        \o "  Machine:                           AArch64\n"

RECURSIVE HeaderFields(_, _, _)
\* header_info after the lines from k on; a later line replaces an equal key
HeaderFields(lines, k, header_info) ==
    IF k > Len(lines) THEN header_info
    ELSE LET line == str_strip(lines[k])
             colon == str_find(line, ":")
         IN  IF colon >= 0
             THEN HeaderFields(lines, k + 1,
                      (str_strip(SubSeq(line, 1, colon))
                           :> str_strip(SubSeq(line, colon + 2, Len(line))))
                      @@ header_info)
             ELSE HeaderFields(lines, k + 1, header_info)

get_elf_header_info(status, stdout) ==
    IF status = "unavailable" THEN [error |-> "Error analyzing ELF header"]
    ELSE IF status # "ok" THEN [error |-> "Error getting ELF header info"]
    ELSE HeaderFields(str_splitlines(stdout), 1, EmptyDict)

\* pat in content.lower(), for a pattern written in lower case
InLower(content, pat) == \E i \in 1..Len(content) : MatchLitAt(content, i, pat, TRUE)

get_optimization_level(status, content) ==
    IF status # "ok" THEN [error |-> "Error analyzing optimization"]
    ELSE [optimization_level |->
              IF InLower(content, "-o0") THEN "O0 (No optimization)"
              ELSE IF InLower(content, "-o1") THEN "O1 (Basic optimization)"
              ELSE IF InLower(content, "-o2") THEN "O2 (Medium optimization)"
              ELSE IF InLower(content, "-o3") THEN "O3 (High optimization)"
              ELSE IF InLower(content, "-os") THEN "Os (Size optimization)"
              ELSE IF InLower(content, "-oz") THEN "Oz (More size optimization)"
              ELSE "unknown",
          has_debug_info |-> InLower(content, ".debug_info") \/ InLower(content, ".debug_str"),
          is_stripped |-> ~(InLower(content, ".debug_info") \/ InLower(content, ".debug_str"))]

analyze_so_file(kind) ==
    IF kind = "missing" THEN [error |-> "File not found"]
    ELSE IF kind # "so" THEN [error |-> "Not a .so file"]
    ELSE IF "raised" \in DOMAIN get_so_architecture(file_cmd)
    THEN get_so_architecture(file_cmd)
    ELSE [basic_info |-> get_file_basic_info(file_size),
          architecture |-> get_so_architecture(file_cmd),
          exported_symbols |->
              get_exported_symbols(ndk_root, file_cmd, nm_cmd, Nm_stdout, Nm_stdout),
          dependencies |-> get_dependencies(ndk_root, file_cmd, readelf_d, ReadelfD_stdout),
          alignment |-> check_alignment(file_size, objdump_p, ObjdumpP_stdout,
                                        readelf_l, ReadelfL_stdout, file_cmd),
          elf_header |-> get_elf_header_info(readelf_h, ReadelfH_stdout),
          section_info |-> get_section_info(readelf_S, ReadelfS_stdout),
          optimization |-> get_optimization_level(strings_cmd, Strings_stdout),
          hash_style |-> check_hash_style(readelf_S, ReadelfS_stdout),
          relocation_packing |-> check_relocation_packing(readelf_S, ReadelfS_stdout),
          ndk_version |-> analyze_clang_ndk_version(strings_cmd, Strings_stdout, year)]

\* A path that names nothing is not a file: main hands it to analyze_directory.
analyze_directory(kind) ==
    IF kind = "missing" THEN [error |-> "Directory not found"]
    ELSE [error |-> "No .so files found in directory"]

(***************************************************************************)
(* Printing.  The output is read through a pipe, so colorize returns the   *)
(* text as it is and the terminal is 80 columns wide.                      *)
(***************************************************************************)
RECURSIVE CpLenFrom(_, _)
\* number of characters of the text from position i on
CpLenFrom(s, i) ==
    IF i > Len(s) THEN 0
    ELSE IF Ch(s, i) = "{" THEN 1 + CpLenFrom(s, IndexOfFrom(s, "}", i) + 1)
    ELSE 1 + CpLenFrom(s, i + 1)

\* len(s)
CpLen(s) == CpLenFrom(s, 1)

RECURSIVE Repeat(_, _)
Repeat(s, n) == IF n <= 0 THEN "" ELSE s \o Repeat(s, n - 1)

terminal_width == 80

\* print(f"\n{padding}{header}{padding}")
print_header(text) ==
    <<"", Repeat("=", (terminal_width - CpLen(" " \o text \o " ")) \div 2)
              \o " " \o text \o " "
              \o Repeat("=", (terminal_width - CpLen(" " \o text \o " ")) \div 2)>>

\* print(f"\n▶ {text}")
print_subheader(text) == <<"", "{25B6} " \o text>>

print_info(label, value) == <<"  " \o label \o ": " \o value>>

print_warning(text) == <<"  {26A0}{FE0F}  " \o text>>

print_error(text) == <<"  {274C} " \o text>>

print_success(text) == <<"  {2705} " \o text>>

\* d.get(k, default)
dict_get(d, k, default) == IF k \in DOMAIN d THEN d[k] ELSE default

\* lines printed only without --compact
Unless(is_compact, lines) == IF is_compact THEN <<>> ELSE lines

\* lines printed only when the condition holds
When(cond, lines) == IF cond THEN lines ELSE <<>>

\* str(True), str(False)
YesNo(b, yes, no) == IF b THEN yes ELSE no

BasicLines(basic_info, arch_info, is_compact) ==
    Unless(is_compact, print_subheader("{1F4CC} {57FA}{672C}{4FE1}{606F}"))
        \o print_info("{6587}{4EF6}{540D}{79F0}", basic_info.file_name)
        \o print_info("{6587}{4EF6}{5927}{5C0F}", basic_info.file_size.human_readable)
        \o print_info("{67B6}{6784}{7C7B}{578B}", dict_get(arch_info, "architecture", "unknown"))
        \o Unless(is_compact, print_subheader("{1F510} {54C8}{5E0C}{503C}"))
        \o print_info("MD5", basic_info.md5)
        \o print_info("SHA1", basic_info.sha1)
        \o print_info("SHA256", SubSeq(basic_info.sha256, 1, 32) \o "...")

\* print_symbol_details for the symbols of the files analysed: there are none.
print_symbol_details(symbols) == When(symbols = <<>>, print_warning("{6CA1}{6709}{627E}{5230}{7B26}{53F7}"))

\* args.symbols is 'exported', args.filter_symbol_type is not given and
\* args.verbose is off; print_table prints nothing for lists without rows.
SymbolLines(symbols_info, is_compact) ==
    print_subheader("{1F523} {7B26}{53F7}{4FE1}{606F}")
        \o (IF "error" \in DOMAIN symbols_info
            THEN print_error("{7B26}{53F7}{5206}{6790}{5931}{8D25}: " \o symbols_info.error)
            ELSE print_info("{6240}{6709}{7B26}{53F7}{603B}{6570}", Dec(symbols_info.total_symbols))
                   \o print_info("{5BFC}{51FA}{7B26}{53F7}{603B}{6570}", Dec(symbols_info.total_exported_symbols))
                   \o (IF is_compact THEN print_info("{7B26}{53F7}{8BE6}{60C5}", "{663E}{793A}{4E2D}...")
                       ELSE print_subheader("{1F50D} {8BE6}{7EC6}{7B26}{53F7}{5217}{8868}")
                                \o print_info("{663E}{793A}{7C7B}{578B}", "{5BFC}{51FA}{7B26}{53F7}"))
                   \o print_symbol_details(symbols_info.exported_symbols))

RECURSIVE NumberedLines(_, _)
\* print_info(f"  {idx}.", dep) for the dependencies from the k-th on
NumberedLines(deps, k) ==
    IF k > Len(deps) THEN <<>>
    ELSE print_info("  " \o Dec(k) \o ".", deps[k]) \o NumberedLines(deps, k + 1)

RECURSIVE JoinComma(_, _)
\* ", ".join(deps[k - 1:])
JoinComma(deps, k) ==
    IF k > Len(deps) THEN ""
    ELSE IF k = Len(deps) THEN deps[k]
    ELSE deps[k] \o ", " \o JoinComma(deps, k + 1)

DependencyLines(deps_info, is_compact) ==
    Unless(is_compact, print_subheader("{1F517} {4F9D}{8D56}{5E93}"))
        \o (IF "error" \in DOMAIN deps_info
            THEN print_error("{4F9D}{8D56}{5206}{6790}{5931}{8D25}: " \o deps_info.error)
            ELSE print_info("{4F9D}{8D56}{5E93}{6570}{91CF}", Dec(dict_get(deps_info, "total_dependencies", 0)))
                   \o When(dict_get(deps_info, "total_dependencies", 0) > 0,
                           IF is_compact
                           THEN print_info("{4F9D}{8D56}{5217}{8868}",
                                           JoinComma(dict_get(deps_info, "dependencies", <<>>), 1))
                           ELSE NumberedLines(dict_get(deps_info, "dependencies", <<>>), 1)))

\* f"{n / 1024:.1f}"
Fixed1(n, d) ==
    LET q == (n * 10) \div d
        r == (n * 10) % d
        h == IF 2 * r > d \/ (2 * r = d /\ q % 2 = 1) THEN q + 1 ELSE q
    IN  Dec(h \div 10) \o "." \o Digit(h % 10)

ZipLines(zip_align, is_compact) ==
    When(DOMAIN zip_align # {},
         print_info("ZIP{5BF9}{9F50}",
                    dict_get(zip_align, "alignment_human", "unknown") \o " "
                        \o YesNo(dict_get(zip_align, "is_aligned", FALSE),
                                 "{2705} {5DF2}{5BF9}{9F50}", "{274C} {672A}{5BF9}{9F50}"))
           \o Unless(is_compact,
                  When(dict_get(zip_align, "purpose", "") # "",
                       print_info("{5BF9}{9F50}{76EE}{7684}", dict_get(zip_align, "purpose", "")))
                    \o When(dict_get(zip_align, "benefit", "") # "",
                            print_info("{6027}{80FD}{76CA}{5904}", dict_get(zip_align, "benefit", ""))))
           \o When(~dict_get(zip_align, "is_aligned", FALSE) /\ "remainder" \in DOMAIN zip_align,
                   print_info("{504F}{79FB}{91CF}", Fixed1(dict_get(zip_align, "remainder", 0), 1024) \o " KB")
                     \o When(~is_compact /\ "recommendation" \in DOMAIN zip_align,
                             print_info("{4FEE}{590D}{5EFA}{8BAE}", dict_get(zip_align, "recommendation", "")))))

LoadLines(load_align) ==
    When(DOMAIN load_align # {},
         (IF "alignment_bytes" \in DOMAIN load_align
          THEN IF dict_get(load_align, "alignment_power", 0) # 0
               THEN print_info("LOAD{6BB5}{5BF9}{9F50}",
                               dict_get(load_align, "alignment", "unknown")
                                   \o " (2^" \o Dec(load_align.alignment_power) \o " = "
                                   \o Dec(load_align.alignment_bytes) \o " {5B57}{8282})")
               ELSE print_info("LOAD{6BB5}{5BF9}{9F50}",
                               dict_get(load_align, "alignment", "unknown")
                                   \o " (" \o Dec(load_align.alignment_bytes) \o " {5B57}{8282})")
          ELSE print_info("LOAD{6BB5}{5BF9}{9F50}", dict_get(load_align, "alignment", "unknown")))
           \o print_info("{5BF9}{9F50}{8BC4}{4F30}", dict_get(load_align, "assessment", "unknown")))

OverallLine(zip_aligned, load_assess) ==
    IF zip_aligned /\ Contains(load_assess, "Excellent")
    THEN print_info("{7EFC}{5408}{8BC4}{4F30}", "{5B8C}{7F8E}{5BF9}{9F50} (ZIP + LOAD)")
    ELSE IF zip_aligned THEN print_info("{7EFC}{5408}{8BC4}{4F30}", "ZIP{5BF9}{9F50}{826F}{597D}")
    ELSE print_info("{7EFC}{5408}{8BC4}{4F30}", "{5EFA}{8BAE}{91CD}{65B0}{5BF9}{9F50}")

AlignmentLines(align_info, is_compact) ==
    print_subheader("{1F4CF} {5BF9}{9F50}{4FE1}{606F}")
        \o (IF "error" \in DOMAIN align_info
            THEN print_error("{5BF9}{9F50}{5206}{6790}{5931}{8D25}: " \o align_info.error)
            ELSE ZipLines(dict_get(align_info, "zip_alignment", EmptyDict), is_compact)
                   \o LoadLines(dict_get(align_info, "load_alignment", EmptyDict))
                   \o OverallLine(dict_get(dict_get(align_info, "zip_alignment", EmptyDict),
                                           "is_aligned", FALSE),
                                  dict_get(dict_get(align_info, "load_alignment", EmptyDict),
                                           "assessment", "")))

OptimizationLines(opt_info, is_compact) ==
    Unless(is_compact, print_subheader("{2699}{FE0F} {4F18}{5316}{4FE1}{606F}"))
        \o (IF "error" \in DOMAIN opt_info
            THEN print_error("{4F18}{5316}{5206}{6790}{5931}{8D25}: " \o opt_info.error)
            ELSE IF is_compact
            THEN print_info("{4F18}{5316}{72B6}{6001}",
                            dict_get(opt_info, "optimization_level", "unknown") \o ", "
                                \o YesNo(dict_get(opt_info, "has_debug_info", FALSE),
                                         "{6709}{8C03}{8BD5}", "{65E0}{8C03}{8BD5}") \o ", "
                                \o YesNo(dict_get(opt_info, "is_stripped", FALSE),
                                         "{5DF2}{5265}{79BB}", "{672A}{5265}{79BB}"))
            ELSE print_info("{4F18}{5316}{7EA7}{522B}", dict_get(opt_info, "optimization_level", "unknown"))
                   \o print_info("{5305}{542B}{8C03}{8BD5}{4FE1}{606F}",
                                 YesNo(dict_get(opt_info, "has_debug_info", FALSE), "{662F}", "{5426}"))
                   \o print_info("{5DF2}{5265}{79BB}{7B26}{53F7}",
                                 YesNo(dict_get(opt_info, "is_stripped", FALSE), "{662F}", "{5426}")))

\* HashStyleLines printing nothing when the analysis failed.
HashStyleLines_silent(hash_info, is_compact) ==
    IF "error" \in DOMAIN hash_info THEN <<>>
    ELSE print_subheader("{1F504} {54C8}{5E0C}{6837}{5F0F} (Hash Style)")
           \o print_info("{54C8}{5E0C}{6837}{5F0F}", dict_get(hash_info, "hash_style", "unknown"))
           \o print_info("{517C}{5BB9}{6027}",
                         "Android API " \o dict_get(hash_info, "compatibility", "unknown"))
           \o print_info("{63CF}{8FF0}", dict_get(hash_info, "description", ""))

HashStyleLines(hash_info, is_compact) ==
    print_subheader("{1F504} {54C8}{5E0C}{6837}{5F0F} (Hash Style)")
        \o (IF "error" \in DOMAIN hash_info
            THEN print_error("{54C8}{5E0C}{6837}{5F0F}{5206}{6790}{5931}{8D25}: " \o hash_info.error)
            ELSE print_info("{54C8}{5E0C}{6837}{5F0F}", dict_get(hash_info, "hash_style", "unknown"))
                   \o print_info("{517C}{5BB9}{6027}",
                                 "Android API " \o dict_get(hash_info, "compatibility", "unknown"))
                   \o print_info("{63CF}{8FF0}", dict_get(hash_info, "description", ""))
                   \o Unless(is_compact,
                          When("recommendation" \in DOMAIN hash_info,
                               print_info("{5EFA}{8BAE}", dict_get(hash_info, "recommendation", "")))
                            \o When("link_flag" \in DOMAIN hash_info,
                                    print_info("{94FE}{63A5}{6807}{5FD7}", dict_get(hash_info, "link_flag", "")))))

RelocationLines(reloc_info, is_compact) ==
    print_subheader("{1F4E6} {91CD}{5B9A}{4F4D}{8868}{538B}{7F29} (Relocation Packing)")
        \o (IF "error" \in DOMAIN reloc_info
            THEN print_error("{91CD}{5B9A}{4F4D}{8868}{5206}{6790}{5931}{8D25}: " \o reloc_info.error)
            ELSE print_info("{91CD}{5B9A}{4F4D}{538B}{7F29}", dict_get(reloc_info, "relocation_packing", "unknown"))
                   \o print_info("{517C}{5BB9}{6027}",
                                 "Android API " \o dict_get(reloc_info, "compatibility", "unknown"))
                   \o print_info("{63CF}{8FF0}", dict_get(reloc_info, "description", ""))
                   \o When(dict_get(reloc_info, "rel_size", 0) > 0,
                           print_info("{4F20}{7EDF}{91CD}{5B9A}{4F4D}{8868}{5927}{5C0F}",
                                      format_size(dict_get(reloc_info, "rel_size", 0))))
                   \o When(dict_get(reloc_info, "relr_size", 0) > 0,
                           print_info("{538B}{7F29}{91CD}{5B9A}{4F4D}{8868}{5927}{5C0F}",
                                      format_size(dict_get(reloc_info, "relr_size", 0))))
                   \o Unless(is_compact,
                          When("recommendation" \in DOMAIN reloc_info,
                               print_info("{5EFA}{8BAE}", dict_get(reloc_info, "recommendation", "")))
                            \o When("link_flag" \in DOMAIN reloc_info,
                                    print_info("{94FE}{63A5}{6807}{5FD7}", dict_get(reloc_info, "link_flag", "")))))

RecommendedLines(ndk_info) ==
    When("recommended_ndk" \in DOMAIN ndk_info,
         IF dict_get(ndk_info, "ndk_version", "unknown") = dict_get(ndk_info, "recommended_ndk", "")
         THEN print_info("NDK{7248}{672C}{72B6}{6001}",
                         "{5F53}{524D}{7248}{672C} (" \o dict_get(ndk_info, "recommended_ndk", "")
                             \o ") {5DF2}{662F}{63A8}{8350}{7248}{672C}")
         ELSE print_info("{63A8}{8350}NDK{7248}{672C}", dict_get(ndk_info, "recommended_ndk", ""))
                \o When(dict_get(ndk_info, "recommended_reason", "") # "",
                        print_info("{63A8}{8350}{539F}{56E0}", dict_get(ndk_info, "recommended_reason", ""))))

\* args.verbose is off: the indicators are not listed.
NdkLines(ndk_info, is_compact) ==
    print_subheader("{1F6E0}{FE0F} NDK{7248}{672C}{5206}{6790}")
        \o (IF "error" \in DOMAIN ndk_info
            THEN print_error("NDK{7248}{672C}{5206}{6790}{5931}{8D25}: " \o ndk_info.error)
            ELSE print_info("{68C0}{6D4B}{5230}{7684}NDK{7248}{672C}", dict_get(ndk_info, "ndk_version", "unknown"))
                   \o When(dict_get(ndk_info, "ndk_version_certainty", "unknown") # "unknown",
                           print_info("{53EF}{4FE1}{5EA6}", dict_get(ndk_info, "ndk_version_certainty", "")))
                   \o When(dict_get(ndk_info, "clang_version", "unknown") # "unknown",
                           print_info("Clang{7248}{672C}", dict_get(ndk_info, "clang_version", ""))
                             \o When(~is_compact
                                       /\ dict_get(ndk_info, "clang_version_full", "") # "",
                                     print_info("Clang{8BE6}{7EC6}{4FE1}{606F}",
                                                dict_get(ndk_info, "clang_version_full", ""))))
                   \o When("android_api_level" \in DOMAIN ndk_info,
                           print_info("Android API{7EA7}{522B}", dict_get(ndk_info, "android_api_level", "")))
                   \o RecommendedLines(ndk_info)
                   \o When("upgrade_recommendation" \in DOMAIN ndk_info,
                           print_info("{5347}{7EA7}{5EFA}{8BAE}", dict_get(ndk_info, "upgrade_recommendation", ""))))

HintLines ==
    <<"", "{63D0}{793A}:",
      "  {4F7F}{7528} -o {53C2}{6570}{4FDD}{5B58}{5B8C}{6574}JSON{7ED3}{679C}",
      "  {4F7F}{7528} --symbols all {67E5}{770B}{6240}{6709}{7B26}{53F7}{8BE6}{60C5}",
      "  {4F7F}{7528} --filter-symbol-type T {53EA}{67E5}{770B}{5BFC}{51FA}{51FD}{6570}",
      "  {4F7F}{7528} --max-symbols 50 {8BBE}{7F6E}{663E}{793A}{7684}{7B26}{53F7}{6570}{91CF}",
      "  {4F7F}{7528} -c {4F7F}{7528}{7D27}{51D1}{8F93}{51FA}{6A21}{5F0F}",
      "  {4F7F}{7528} --no-color {7981}{7528}{5F69}{8272}{8F93}{51FA}",
      "  {4F7F}{7528} -v {663E}{793A}{66F4}{8BE6}{7EC6}{7684}{5206}{6790}{4FE1}{606F}">>

\* The single-file report main prints for the dictionary of analyze_so_file.
SingleFileReport(res, is_compact) ==
    print_header("{1F4CA} SO{6587}{4EF6}{5206}{6790}{62A5}{544A}")
        \o BasicLines(res.basic_info, res.architecture, is_compact)
        \o SymbolLines(res.exported_symbols, is_compact)
        \o DependencyLines(res.dependencies, is_compact)
        \o AlignmentLines(res.alignment, is_compact)
        \o OptimizationLines(res.optimization, is_compact)
        \o HashStyleLines(dict_get(res, "hash_style", EmptyDict), is_compact)
        \o RelocationLines(dict_get(res, "relocation_packing", EmptyDict), is_compact)
        \o NdkLines(dict_get(res, "ndk_version", EmptyDict), is_compact)
        \o Unless(is_compact, HintLines)

(***************************************************************************)
(* main on one path, without --align: the analysis, then the output.       *)
(***************************************************************************)
InitRun ==
    /\ pc = "main"
    /\ \E f \in ClassifierFiles :
          /\ so_sections = f.sections
          /\ so_first_index = f.first_index
          /\ so_header = f.header
          /\ so_segments = f.segments
          /\ readelf_l_form = f.form
          /\ file_size = f.size
          /\ so_strings = f.strings
    /\ year = 2024
    /\ path_kind \in {"missing", "not_so", "so"}
    /\ compact \in BOOLEAN
    /\ output \in BOOLEAN
    /\ IF path_kind = "so"
       THEN /\ readelf_S \in {"ok", "nonzero"}
            /\ objdump_p \in {"ok", "nonzero"}
            /\ readelf_l \in ToolStatus
            /\ strings_cmd \in {"ok", "nonzero"}
            /\ file_cmd \in {"ok", "unavailable"}
            /\ ndk_root \in BOOLEAN
            /\ nm_cmd \in IF ndk_root THEN {"ok", "nonzero"} ELSE {"ok"}
            /\ readelf_d \in {"ok", "nonzero"}
            /\ readelf_h \in {"ok", "nonzero"}
       ELSE /\ readelf_S = "ok"
            /\ objdump_p = "ok"
            /\ readelf_l = "ok"
            /\ strings_cmd = "ok"
            /\ file_cmd = "ok"
            /\ ndk_root = TRUE
            /\ nm_cmd = "ok"
            /\ readelf_d = "ok"
            /\ readelf_h = "ok"
    /\ alignment = NotRun
    /\ section_info = NotRun
    /\ hash_style = NotRun
    /\ relocation_packing = NotRun
    /\ ndk_version = NotRun
    /\ results = NotRun
    /\ sys_stdout = <<>>
    /\ exit_status = -1
    /\ CliIdle

\* What main prints before the analysis.
BannerLines(kind, has_ndk_root, is_compact, y) ==
    When(~has_ndk_root, print_warning("NDK_ROOT{73AF}{5883}{53D8}{91CF}{672A}{8BBE}{7F6E}{FF0C}{67D0}{4E9B}{5206}{6790}{529F}{80FD}{53EF}{80FD}{53D7}{9650}"))
        \o Unless(is_compact,
               print_header(IF kind = "missing" THEN "{1F50D} ANDROID SO{76EE}{5F55}{5206}{6790}{5DE5}{5177}"
                            ELSE "{1F50D} ANDROID SO{5206}{6790}{5DE5}{5177}")
                 \o print_info("{5206}{6790}{65F6}{95F4}", Dec(y) \o "-01-01 00:00:00")
                 \o print_info("{7CFB}{7EDF}{73AF}{5883}", "Linux 6.1.0 (x86_64)"))

\* main up to the return of the analysis.  An exception that leaves
\* analyze_so_file ends the process with a traceback and exit status 1.
MainAnalyze ==
    /\ pc = "main"
    /\ sys_stdout' = sys_stdout \o BannerLines(path_kind, ndk_root, compact, year)
    /\ results' = IF path_kind = "missing" THEN analyze_directory(path_kind)
                  ELSE analyze_so_file(path_kind)
    /\ IF "raised" \in DOMAIN results'
       THEN pc' = "exited" /\ exit_status' = 1
       ELSE pc' = "output" /\ exit_status' = exit_status
    /\ UNCHANGED <<sectionVars, alignVars, ndkVars, runInputs>>

\* The lines main prints for the results.
OutputLines(res, is_compact, to_file) ==
    IF to_file THEN print_success("{5206}{6790}{7ED3}{679C}{5DF2}{4FDD}{5B58}{5230}: result.json")
    ELSE IF "error" \in DOMAIN res THEN print_error("{9519}{8BEF}: " \o res.error)
    ELSE SingleFileReport(res, is_compact)

MainOutput ==
    /\ pc = "output"
    /\ sys_stdout' = sys_stdout \o OutputLines(results, compact, output)
    /\ exit_status' = 0
    /\ pc' = "exited"
    /\ UNCHANGED <<sectionVars, alignVars, ndkVars, runInputs, results>>

NextRun == MainAnalyze \/ MainOutput

SpecRun == InitRun /\ [][NextRun]_vars

(***************************************************************************)
(* Properties of a run of main.                                            *)
(***************************************************************************)
\* The keys of the dictionary analyze_so_file builds.
Dimensions ==
    {"basic_info", "architecture", "exported_symbols", "dependencies", "alignment",
     "elf_header", "section_info", "optimization", "hash_style", "relocation_packing",
     "ndk_version"}

\* analyze_so_file has returned or raised.
Analyzed == pc # "main"

\* C15: a missing input file is the only condition that aborts a whole
\* run: for every path that exists the analysis returns the dictionary of
\* per-dimension results, never one error for the run and never an exception.
C15_OnlyMissingInputAborts ==
    (Analyzed /\ path_kind # "missing") => DOMAIN results = Dimensions

\* The process has ended after printing the single-file report.
Reported ==
    /\ pc = "exited" /\ exit_status = 0
    /\ ~output
    /\ "error" \notin DOMAIN results

StartsWithStr(s, p) == Len(s) >= Len(p) /\ SubSeq(s, 1, Len(p)) = p

IsSubheader(line) == StartsWithStr(line, "{25B6} ")

\* sys_stdout[j] belongs to the section whose subheader is sys_stdout[i].
InSection(i, j) ==
    /\ i < j /\ j <= Len(sys_stdout)
    /\ \A k \in (i + 1)..j : ~IsSubheader(sys_stdout[k])

\* The section of a dimension is printed: its subheader, followed by the
\* failure line with the reason when the analysis failed, else by a verdict.
Rendered(title, info, failure, label) ==
    \E i \in 1..Len(sys_stdout) :
        /\ sys_stdout[i] = "{25B6} " \o title
        /\ IF "error" \in DOMAIN info
           THEN /\ i < Len(sys_stdout)
                /\ sys_stdout[i + 1] = "  {274C} " \o failure \o ": " \o info.error
           ELSE \E j \in (i + 1)..Len(sys_stdout) :
                    /\ InSection(i, j)
                    /\ StartsWithStr(sys_stdout[j], "  " \o label \o ": ")

\* C17: in the single-file report each of the four dimensions (alignment,
\* hash style, relocation packing, toolchain version) is rendered, as a
\* verdict or as a failure line carrying the reason, whichever analyses
\* succeeded or failed.
C17_EveryDimensionRendered ==
    Reported =>
        /\ Rendered("{1F4CF} {5BF9}{9F50}{4FE1}{606F}", results.alignment, "{5BF9}{9F50}{5206}{6790}{5931}{8D25}", "{7EFC}{5408}{8BC4}{4F30}")
        /\ Rendered("{1F504} {54C8}{5E0C}{6837}{5F0F} (Hash Style)", results.hash_style,
                    "{54C8}{5E0C}{6837}{5F0F}{5206}{6790}{5931}{8D25}", "{54C8}{5E0C}{6837}{5F0F}")
        /\ Rendered("{1F4E6} {91CD}{5B9A}{4F4D}{8868}{538B}{7F29} (Relocation Packing)", results.relocation_packing,
                    "{91CD}{5B9A}{4F4D}{8868}{5206}{6790}{5931}{8D25}", "{91CD}{5B9A}{4F4D}{538B}{7F29}")
        /\ Rendered("{1F6E0}{FE0F} NDK{7248}{672C}{5206}{6790}", results.ndk_version,
                    "NDK{7248}{672C}{5206}{6790}{5931}{8D25}", "{68C0}{6D4B}{5230}{7684}NDK{7248}{672C}")

\* A report in which the alignment and the two section analyses failed and
\* the toolchain analysis succeeded.
C17_Witness ==
    /\ Reported
    /\ "error" \in DOMAIN results.alignment
    /\ "error" \in DOMAIN results.hash_style
    /\ "error" \in DOMAIN results.relocation_packing
    /\ "error" \notin DOMAIN results.ndk_version

\* What test_so_analyzer.py looks for in the output of the analyzer.
checks ==
    <<"{6587}{4EF6}{57FA}{672C}{4FE1}{606F}", "{6587}{4EF6}{54C8}{5E0C}{503C}:", "ELF{6587}{4EF6}{5934}{4FE1}{606F}", "{4F9D}{8D56}{5E93}{5206}{6790}", "{5BFC}{51FA}{7B26}{53F7}{5206}{6790}",
      "{8282}{4FE1}{606F}{7EDF}{8BA1}", "16KB{9875}{9762}{5BF9}{9F50}{68C0}{67E5}", "{54C8}{5E0C}{8868}{6837}{5F0F}{5206}{6790}", "{91CD}{5B9A}{4F4D}{8868}{538B}{7F29}{5206}{6790}",
      "NDK{7248}{672C}{5206}{6790}", "{914D}{7F6E}{72B6}{6001}{6C47}{603B}">>

data_checks ==
    <<"MD5:", "SHA1:", "SHA256:", "{6587}{4EF6}{5927}{5C0F}:", "{76EE}{6807}{67B6}{6784}:", "{4F9D}{8D56}{5E93}{6570}{91CF}:",
      "{603B}{7B26}{53F7}{6570}:", "{603B}{8282}{6570}:">>

\* pattern in output
InOutput(pattern) == \E i \in 1..Len(sys_stdout) : Contains(sys_stdout[i], pattern)

\* The run the test makes: an existing .so file and no option.
TestRunEnded == pc = "exited" /\ path_kind = "so" /\ ~compact /\ ~output

\* C18: for an existing .so file analysed in single-file mode the analyzer
\* exits with status 0 and its output holds each of the eleven module
\* titles and each of the eight key data the test checks.
C18_OutputPassesTest ==
    TestRunEnded =>
        /\ exit_status = 0
        /\ \A k \in 1..Len(checks) : InOutput(checks[k])
        /\ \A k \in 1..Len(data_checks) : InOutput(data_checks[k])

\* C19: the results of a run carry an aggregated summary: the failing
\* dimensions as `issues` and one remediation string per issue as
\* `recommendations`, of equal length, under the title the test looks for.
C19_SummaryIssuesMatchRecommendations ==
    (pc = "exited" /\ exit_status = 0 /\ path_kind = "so") =>
        /\ "issues" \in DOMAIN results
        /\ "recommendations" \in DOMAIN results
        /\ Len(results.issues) = Len(results.recommendations)
        /\ (~output => InOutput("{914D}{7F6E}{72B6}{6001}{6C47}{603B}"))

(***************************************************************************)
(* The alignment analysis on program headers of any content: a p_align     *)
(* that is no power of two, LOAD lines with fields missing.                *)
(***************************************************************************)
InitSegLines ==
    /\ pc = "alignment"
    /\ file_size = 20000
    /\ so_segments \in OddSegmentTables
    /\ objdump_p \in ToolStatus
    /\ readelf_l \in ToolStatus
    /\ readelf_l_form \in ReadelfLForms
    /\ file_cmd = "ok"
    /\ alignment = NotRun
    /\ SectionsIdle
    /\ NdkIdle
    /\ RunIdle

SpecSegLines == InitSegLines /\ [][NextAlign]_vars

IsPowerOfTwo(n) == \E k \in 0..30 : n = 2 ^ k

\* C21: every segment alignment value the analysis reports is a power of
\* two, whether it was read from `align 2**n`, from `Align 0x...`, or
\* assumed when nothing was parsed.
C21_AlignmentIsPowerOfTwo ==
    (AlignDone /\ "alignment_bytes" \in DOMAIN alignment.load_alignment) =>
        IsPowerOfTwo(alignment.load_alignment.alignment_bytes)

\* The largest power printed on the lines of the segments ks.
MaxPower(ks) ==
    CHOOSE n \in {so_segments[k].power : k \in ks} :
        \A k \in ks : so_segments[k].power <= n

\* LOAD segments whose objdump line carries off, vaddr and align.
CompleteLoads ==
    {k \in DOMAIN so_segments :
        so_segments[k].kind = "LOAD"
        /\ so_segments[k].form \in {"full", "spec", "odd"}}

\* C22 as stated: only LOAD lines carrying off, vaddr and align contribute;
\* a LOAD line missing one of them has no influence on the alignment read
\* from objdump -p.
C22_AllThreeFieldsRequired ==
    (AlignDone /\ objdump_p = "ok") =>
        IF CompleteLoads # {}
        THEN /\ "alignment_power" \in DOMAIN alignment.load_alignment
             /\ alignment.load_alignment.alignment_power = MaxPower(CompleteLoads)
        ELSE "alignment_power" \notin DOMAIN alignment.load_alignment

\* C22 amended: a line of objdump -p contributes iff it contains LOAD and
\* `align 2**<n>`; off and vaddr are not looked at.  The alignment read is
\* the largest over those lines, and none is read when there is no such line.
C22_LoadAndAlignSuffice ==
    (AlignDone /\ objdump_p = "ok") =>
        IF ObjdumpLoads # {}
        THEN /\ "alignment_power" \in DOMAIN alignment.load_alignment
             /\ alignment.load_alignment.alignment_power = MaxPower(ObjdumpLoads)
             /\ alignment.load_alignment.alignment_bytes = 2 ^ MaxPower(ObjdumpLoads)
        ELSE "alignment_power" \notin DOMAIN alignment.load_alignment

\* Witness of C22: a complete 4K LOAD line next to a 64K LOAD line without
\* the off field, and 64K reported.
C22_Witness ==
    /\ AlignDone /\ objdump_p = "ok"
    /\ so_segments = <<[kind |-> "LOAD", power |-> 12, form |-> "full"],
                       [kind |-> "LOAD", power |-> 16, form |-> "nooff"]>>
    /\ alignment.load_alignment.alignment_bytes = 65536

\* C23: the traditional-relocation flag is true iff some section is named
\* exactly .rel.dyn, .rel.plt, .rela.dyn or .rela.plt and its type is not
\* ANDROID_REL / ANDROID_RELA.
C23_TraditionalFlagByNameAndType ==
    RelocDone => (relocation_packing.has_traditional_rel <=> RowHasTraditionalRel)

(***************************************************************************)
(* get_section_info on texts in which complete rows and broken lines mix.  *)
(***************************************************************************)
InitSectionLines ==
    /\ pc = "section_info"
    /\ so_sections \in LineTables
    /\ so_first_index \in FirstIndexes
    /\ so_header \in HeaderKinds
    /\ readelf_S \in ToolStatus
    /\ section_info = NotRun
    /\ hash_style = NotRun
    /\ relocation_packing = NotRun
    /\ AlignIdle
    /\ NdkIdle
    /\ RunIdle

SpecSectionLines == InitSectionLines /\ [][NextSections]_vars

\* Whitespace-separated tokens on the line of row k: the fields printed, and
\* one more when the index is printed with a space inside the brackets.
RowTokens(k) ==
    LET r == so_sections[k]
    IN  (CASE RowForm(r) = "short" -> 4
           [] RowForm(r) = "six" -> 6
           [] OTHER -> 11)
        + (IF so_first_index + k - 1 < 10 THEN 1 ELSE 0)

\* "Well-formed": a leading `[` and at least 7 tokens.
WellFormed(k) == RowForm(so_sections[k]) # "nobracket" /\ RowTokens(k) >= 7

\* The index, name and size read off a well-formed line: the tokens at
\* positions 0, 1 and 5.
RowSection(k) ==
    LET r == so_sections[k]
        idx == so_first_index + k - 1
    IN  IF idx >= 10 THEN [index |-> Dec(idx), name |-> r.name, size |-> r.size]
        ELSE [index |-> "", name |-> Dec(idx) \o "]", size |-> r.off]

RECURSIVE WellFormedSections(_)
\* One section per well-formed line among rows k.., in the order of the text.
WellFormedSections(k) ==
    IF k > Len(so_sections) THEN <<>>
    ELSE (IF WellFormed(k) THEN <<RowSection(k)>> ELSE <<>>)
             \o WellFormedSections(k + 1)

\* index, name and size of the sections parsed.
ParsedSections ==
    [n \in DOMAIN section_info.sections |->
        [index |-> section_info.sections[n].index,
         name  |-> section_info.sections[n].name,
         size  |-> section_info.sections[n].size]]

ColumnHeaderSection == [index |-> "Nr", name |-> "Name", size |-> "Size"]

\* C24 as stated: parsing never fails, a line without a leading `[` or with
\* fewer than 7 tokens yields no section, and every well-formed row before
\* and after it is parsed, one section per row, in the order encountered.
C24_WellFormedRowsAlwaysParsed ==
    (pc # "section_info" /\ readelf_S = "ok") =>
        /\ "sections" \in DOMAIN section_info
        /\ SelectSeq(ParsedSections, LAMBDA x : x # ColumnHeaderSection)
               = WellFormedSections(1)

\* C24 amended: parsing never fails; after a `Section Headers:` line every
\* line with a leading `[`, a `]` and at least 7 tokens yields one section,
\* in the order encountered (the column-header line `[Nr] Name ...` among
\* them), and every other line yields none; in a text without a
\* `Section Headers:` line no row yields a section.
C24_RowsParsedAfterTitle ==
    (pc # "section_info" /\ readelf_S = "ok") =>
        /\ "sections" \in DOMAIN section_info
        /\ ParsedSections =
              (CASE so_header = "none"  -> <<>>
                 [] so_header = "title" -> WellFormedSections(1)
                 [] so_header = "full"  -> <<ColumnHeaderSection>> \o WellFormedSections(1))
        /\ section_info.total_sections = Len(section_info.sections)

\* Witness of C24: a complete row, a line cut short, a complete row, under
\* the title; the two complete rows are the sections.
C24_Witness ==
    /\ SectionInfoDone /\ so_header = "title" /\ so_first_index = 10
    /\ Len(so_sections) = 3
    /\ RowForm(so_sections[1]) = "whole"
    /\ RowForm(so_sections[2]) = "short"
    /\ RowForm(so_sections[3]) = "whole"
    /\ Len(section_info.sections) = 2
    /\ section_info.sections[2].index = "12"

(***************************************************************************)
(* The inference run on the reference versions of the table itself.        *)
(***************************************************************************)
\* Corpora whose only version string is `clang version <clang_ref>` of a
\* table entry, alone or next to a string that is no version and no marker.
TableCorpora ==
    { <<Compiler("clang_version", version_parts(NDK_CLANG_MAPPING[e].clang))>> :
        e \in 1..Len(NDK_CLANG_MAPPING) }
    \cup
    { <<Marker("other", "libc.so"),
        Compiler("clang_version", version_parts(NDK_CLANG_MAPPING[e].clang))>> :
        e \in 1..Len(NDK_CLANG_MAPPING) }

InitNdkTable ==
    /\ pc = "ndk_version"
    /\ so_strings \in TableCorpora
    /\ strings_cmd \in ToolStatus
    /\ year \in Years
    /\ ndk_version = NotRun
    /\ SectionsIdle
    /\ AlignIdle
    /\ RunIdle

SpecNdkTable == InitNdkTable /\ [][NextNdk]_vars

\* The table entries whose reference version is the one in the corpus.
CorpusEntries ==
    {e \in Entries : version_parts(NDK_CLANG_MAPPING[e].clang) = FoundVersion}

\* The first entry of the table with the major and minor numbers of entry e.
FirstSameMajorMinor(e) ==
    CHOOSE f \in Entries :
        /\ Distance(version_parts(NDK_CLANG_MAPPING[e].clang), f) = 0
        /\ \A g \in Entries :
              Distance(version_parts(NDK_CLANG_MAPPING[e].clang), g) = 0 => f <= g

\* C25 as stated: for each table entry (ndk, clang_ref), a corpus whose only
\* version string is `clang version <clang_ref>` yields ndk_version = ndk.
C25_TableRoundTrip ==
    (NdkDone /\ OnlyCompilerVersion) =>
        \A e \in CorpusEntries :
            ndk_version.ndk_version = NDK_CLANG_MAPPING[e].ndk

\* C25 amended: the corpus `clang version <clang_ref>` of entry e yields the
\* NDK id of the first table entry whose reference has the major and minor
\* numbers of clang_ref, with certainty high: its own id when e is that
\* first entry, and r25, r18, r16, r13 for r24, r17, r15, r12.
C25_TableMapsToFirstSameMajorMinor ==
    (NdkDone /\ OnlyCompilerVersion) =>
        \A e \in CorpusEntries :
            /\ ndk_version.ndk_version = NDK_CLANG_MAPPING[FirstSameMajorMinor(e)].ndk
            /\ ndk_version.ndk_version_certainty = "high"
            /\ (\A f \in Entries : f < e =>
                    Distance(version_parts(NDK_CLANG_MAPPING[e].clang), f) # 0)
                  => ndk_version.ndk_version = NDK_CLANG_MAPPING[e].ndk

\* Witness of C25: the reference version of r24, 14.0.1, reported as r25.
C25_Witness ==
    /\ NdkDone /\ OnlyCompilerVersion
    /\ FoundVersion = <<14, 0, 1>>
    /\ ndk_version.ndk_version = "r25"

\* The release number of an NDK id: the digits after its leading letter.
ReleaseNumber(id) == int10(SubSeq(id, 2, SpanEnd(id, Digits, 2) - 1))

\* C26: an upgrade recommendation is attached exactly when the detected NDK
\* release is numerically older than the recommended one, for ids detected
\* directly as well as inferred ones, and never when ndk_version is unknown.
C26_UpgradeIffNumericallyOlder ==
    NdkDone =>
        ("upgrade_recommendation" \in DOMAIN ndk_version
            <=> /\ ndk_version.ndk_version # "unknown"
                /\ ReleaseNumber(ndk_version.ndk_version)
                       < ReleaseNumber(ndk_version.recommended_ndk))

(***************************************************************************)
(* The --align mode: align_so_file and the branch of main that calls it.   *)
(* A file's content is a sequence of runs of bytes, [kind, len]: the bytes *)
(* of the library ("original"), zero bytes ("zero"), anything else.        *)
(***************************************************************************)
Absent == "absent"
NoPath == "<None>"

Bytes(kind, n) == IF n = 0 THEN <<>> ELSE <<[kind |-> kind, len |-> n]>>

RECURSIVE ContentSize(_)
\* os.path.getsize
ContentSize(content) ==
    IF content = <<>> THEN 0 ELSE content[1].len + ContentSize(Tail(content))

\* os.path.abspath, the working directory being /work
abspath(path) == IF Len(path) > 0 /\ Ch(path, 1) = "/" THEN path ELSE "/work/" \o path

\* os.path.exists
path_exists(fs, path) == abspath(path) \in DOMAIN fs /\ fs[abspath(path)] # Absent

str_endswith(s, suffix) ==
    Len(s) >= Len(suffix) /\ SubSeq(s, Len(s) - Len(suffix) + 1, Len(s)) = suffix

\* open(path, 'wb'): the file is created, or emptied when it exists.
OpenForWriting(fs, path) == [fs EXCEPT ![abspath(path)] = <<>>]

\* dst.write(data)
WriteBytes(fs, path, data) == [fs EXCEPT ![abspath(path)] = @ \o data]

\* The copy: both files are opened, then src.read() is written, then the
\* padding.  src.read() returns what the source holds once dst is open.
CopyAndPad(fs, file_path, out, padding_needed) ==
    WriteBytes(WriteBytes(OpenForWriting(fs, out), out,
                          OpenForWriting(fs, out)[abspath(file_path)]),
               out, Bytes("zero", padding_needed))

AlignedResult(original_size, aligned_size, alignment_arg, out) ==
    [status        |-> "aligned",
     original_size |-> original_size,
     aligned_size  |-> aligned_size,
     padding_added |-> aligned_size - original_size,
     alignment     |-> alignment_arg,
     output_path   |-> out,
     message       |-> "{6210}{529F}{5BF9}{9F50}{6587}{4EF6}{FF0C}{6DFB}{52A0}{4E86} " \o Dec(aligned_size - original_size)
                          \o " {5B57}{8282}{586B}{5145}"]

\* Returns the result dictionary and the file system left behind.
align_after_size(fs, file_path, alignment_arg, out, original_size, aligned_size) ==
    IF aligned_size - original_size = 0
    THEN [result |-> [status        |-> "already_aligned",
                      original_size |-> original_size,
                      alignment     |-> alignment_arg,
                      message       |-> "{6587}{4EF6}{5DF2}{6309} " \o Dec(alignment_arg) \o " {5B57}{8282}{5BF9}{9F50}"],
          files |-> fs]
    ELSE IF abspath(out) \notin DOMAIN fs
    THEN [result |-> [error |-> "{5BF9}{9F50}{5931}{8D25}"], files |-> fs]
    ELSE [result |-> AlignedResult(original_size, aligned_size, alignment_arg, out),
          files  |-> CopyAndPad(fs, file_path, out, aligned_size - original_size)]

align_so_file(fs, file_path, alignment_arg, output_path) ==
    IF ~path_exists(fs, file_path)
    THEN [result |-> [error |-> "{6587}{4EF6}{4E0D}{5B58}{5728}: " \o file_path], files |-> fs]
    ELSE IF ~str_endswith(file_path, ".so")
    THEN [result |-> [error |-> "{4E0D}{662F}SO{6587}{4EF6}: " \o file_path], files |-> fs]
    ELSE align_after_size(fs, file_path, alignment_arg,
             IF output_path = NoPath THEN file_path \o ".aligned" ELSE output_path,
             ContentSize(fs[abspath(file_path)]),
             ((ContentSize(fs[abspath(file_path)]) + alignment_arg - 1) \div alignment_arg)
                 * alignment_arg)

RECURSIVE Commas(_)
\* f"{n:,}"
Commas(n) ==
    IF n < 1000 THEN Dec(n)
    ELSE Commas(n \div 1000) \o "," \o Digit((n % 1000) \div 100)
             \o Digit((n % 100) \div 10) \o Digit(n % 10)

\* The lines main prints for the result, and the exception that ends it.
AlignReport(result) ==
    IF "error" \in DOMAIN result
    THEN [lines |-> print_error("{5BF9}{9F50}{5931}{8D25}: " \o result.error), raised |-> ""]
    ELSE IF "aligned_size" \notin DOMAIN result
    THEN [lines |-> print_success(result.message)
                      \o print_info("{539F}{59CB}{5927}{5C0F}", Commas(result.original_size) \o " {5B57}{8282}"),
          raised |-> "KeyError"]
    ELSE [lines |-> print_success(result.message)
                      \o print_info("{539F}{59CB}{5927}{5C0F}", Commas(result.original_size) \o " {5B57}{8282}")
                      \o print_info("{5BF9}{9F50}{540E}{5927}{5C0F}", Commas(result.aligned_size) \o " {5B57}{8282}")
                      \o When(result.status = "aligned",
                              print_info("{586B}{5145}{5927}{5C0F}", Commas(result.padding_added) \o " {5B57}{8282}"))
                      \o When("output_path" \in DOMAIN result,
                              print_info("{8F93}{51FA}{6587}{4EF6}", result.output_path)),
          raised |-> ""]

\* argparse choices of --align
AlignChoices == {4096, 8192, 16384, 32768, 65536}

OriginalSizes == {1, 4096, 16384, 20000, 65536, 70000}

\* The working directory: the library, a file that is no library, possibly
\* an older out.so; gone.so and lib.so.aligned do not exist.
WorkDir(size, old_output) ==
    [p \in {"/work/lib.so", "/work/lib.so.aligned", "/work/out.so",
            "/work/notes.txt", "/work/gone.so"} |->
        CASE p = "/work/lib.so"    -> Bytes("original", size)
          [] p = "/work/notes.txt" -> Bytes("other", 10)
          [] p = "/work/out.so"    -> IF old_output THEN Bytes("other", 300) ELSE Absent
          [] OTHER                 -> Absent]

InitAlignFile ==
    /\ pc = "align"
    /\ \E size \in OriginalSizes, old_output \in BOOLEAN :
          files = WorkDir(size, old_output)
    /\ align_args \in [path : {"lib.so", "gone.so", "notes.txt"},
                       align : AlignChoices,
                       align_output : {NoPath, "out.so", "lib.so", "/work/lib.so",
                                       "/nodir/out.so"}]
    /\ align_result = NotRun
    /\ llvm_readelf = TRUE
    /\ AnalysisIdle
    /\ SectionsIdle
    /\ AlignIdle
    /\ NdkIdle

\* main, --align given: the banner and the call of align_so_file.
MainAlign ==
    /\ pc = "align"
    /\ sys_stdout' = sys_stdout \o When(~ndk_root, print_warning("NDK_ROOT{73AF}{5883}{53D8}{91CF}{672A}{8BBE}{7F6E}{FF0C}{67D0}{4E9B}{5206}{6790}{529F}{80FD}{53EF}{80FD}{53D7}{9650}"))
                                \o print_header("{1F527} SO{6587}{4EF6}{5BF9}{9F50}{5DE5}{5177}")
    /\ align_result' = align_so_file(files, abspath(align_args.path), align_args.align,
                                     align_args.align_output).result
    /\ files' = align_so_file(files, abspath(align_args.path), align_args.align,
                              align_args.align_output).files
    /\ pc' = "align_report"
    /\ UNCHANGED <<sectionVars, alignVars, ndkVars, results, exit_status, align_args,
                   llvm_readelf, path_kind, ndk_root, nm_cmd, readelf_d, readelf_h,
                   compact, output>>

\* main, --align given: the report of the result, then return.
MainAlignReport ==
    /\ pc = "align_report"
    /\ sys_stdout' = sys_stdout \o AlignReport(align_result).lines
    /\ exit_status' = IF AlignReport(align_result).raised # "" THEN 1 ELSE 0
    /\ pc' = "exited"
    /\ UNCHANGED <<sectionVars, alignVars, ndkVars, runInputs, results>>

NextAlignFile == MainAlign \/ MainAlignReport

SpecAlignFile == InitAlignFile /\ [][NextAlignFile]_vars

\* align_so_file has returned a result with status aligned.
PaddingAdded ==
    /\ pc \in {"align_report", "exited"}
    /\ "status" \in DOMAIN align_result
    /\ align_result.status = "aligned"

\* C27: when padding is needed, the output file holds the original bytes
\* followed by exactly padding_added zero bytes, 0 < padding_added <
\* alignment, original_size + padding_added is the smallest multiple of the
\* alignment >= original_size, for every output_path (the input path
\* included), and the original content is never lost.
C27_OutputIsOriginalPlusPadding ==
    PaddingAdded =>
        /\ files[abspath(align_result.output_path)]
               = Bytes("original", align_result.original_size)
                     \o Bytes("zero", align_result.padding_added)
        /\ 0 < align_result.padding_added
        /\ align_result.padding_added < align_result.alignment
        /\ (align_result.original_size + align_result.padding_added)
               % align_result.alignment = 0
        /\ files[abspath(align_args.path)] # Absent
        /\ SubSeq(files[abspath(align_args.path)], 1, 1)
               = Bytes("original", align_result.original_size)

\* C28: for every non-error result of align_so_file the report of main
\* completes without raising, every field it prints being present in the
\* result: message, original_size, aligned_size, and padding_added when
\* the status is aligned.
C28_AlignReportCompletes ==
    (pc = "exited" /\ "error" \notin DOMAIN align_result) =>
        /\ exit_status = 0
        /\ {"message", "original_size", "aligned_size"} \subseteq DOMAIN align_result
        /\ align_result.status = "aligned" => "padding_added" \in DOMAIN align_result

\* C29: a file whose size is a multiple of 65536 is reported as 64KB
\* aligned, and for a size that is a multiple of neither 16384 nor 65536 the
\* recommended padding makes the file aligned: file_size plus the bytes the
\* recommendation names is a multiple of the reported alignment_bytes.
C29_ZipAlignmentAndPadding ==
    AlignDone =>
        /\ file_size % 65536 = 0 =>
              /\ alignment.zip_alignment.is_aligned
              /\ alignment.zip_alignment.alignment_human = "64KB"
        /\ (file_size % 16384 # 0 /\ file_size % 65536 # 0) =>
              /\ ~alignment.zip_alignment.is_aligned
              /\ (file_size + alignment.zip_alignment.remainder)
                     % alignment.zip_alignment.alignment_bytes = 0

(***************************************************************************)
(* check_android_so.py: the checker of the two linker options.             *)
(***************************************************************************)
\* s.split('\n'), for texts whose only line separator is \n
str_split_nl(s) ==
    IF s = "" \/ Ch(s, Len(s)) = "\n" THEN str_splitlines(s) \o <<"">>
    ELSE str_splitlines(s)

NoHash == [gnu_hash_found |-> FALSE, trad_hash_found |-> FALSE, printed |-> <<>>]

RECURSIVE HashScan(_, _, _)
\* The loop of analyze_hash_sections over the lines.
HashScan(lines, k, acc) ==
    IF k > Len(lines) THEN acc
    ELSE IF Contains(lines[k], ".gnu.hash")
    THEN HashScan(lines, k + 1,
             [acc EXCEPT !.gnu_hash_found = TRUE,
                         !.printed = @ \o <<"{2705} {627E}{5230} .gnu.hash {8282}{533A}: " \o str_strip(lines[k])>>])
    ELSE IF Contains(lines[k], ".hash") /\ ~StartsWithStr(str_strip(lines[k]), "[")
    THEN HashScan(lines, k + 1,
             [acc EXCEPT !.trad_hash_found = TRUE,
                         !.printed = @ \o <<"{1F4DD} {627E}{5230} .hash {8282}{533A}: " \o str_strip(lines[k])>>])
    ELSE HashScan(lines, k + 1, acc)

analyze_hash_sections(readelf_output) == HashScan(str_split_nl(readelf_output), 1, NoHash)

NoRela == [android_rela_found |-> FALSE, traditional_rela_found |-> FALSE, printed |-> <<>>]

RECURSIVE RelaScan(_, _, _)
\* The loop of analyze_relocation_sections over the lines.
RelaScan(lines, k, acc) ==
    IF k > Len(lines) THEN acc
    ELSE IF ~InLower(lines[k], "rela.dyn") THEN RelaScan(lines, k + 1, acc)
    ELSE IF Contains(lines[k], "ANDROID_RELA")
    THEN RelaScan(lines, k + 1,
             [acc EXCEPT !.android_rela_found = TRUE,
                         !.printed = @ \o <<"{2705} {627E}{5230} ANDROID_RELA {7C7B}{578B}{7684} .rela.dyn {8282}{533A}: "
                                               \o str_strip(lines[k])>>])
    ELSE IF Contains(lines[k], "RELA") /\ ~acc.traditional_rela_found
    THEN RelaScan(lines, k + 1,
             [acc EXCEPT !.traditional_rela_found = TRUE,
                         !.printed = @ \o <<"{274C} {627E}{5230}{4F20}{7EDF} RELA {7C7B}{578B}{7684} .rela.dyn {8282}{533A}: "
                                               \o str_strip(lines[k])>>])
    ELSE RelaScan(lines, k + 1, acc)

analyze_relocation_sections(readelf_output) ==
    RelaScan(str_split_nl(readelf_output), 1, NoRela)

Rule60 == Repeat("=", 60)

HashConclusion(h) ==
    IF h.gnu_hash_found /\ ~h.trad_hash_found
    THEN "{2705} {7ED3}{8BBA}: -Wl,--hash-style=gnu {9009}{9879}{5DF2}{751F}{6548} ({4EC5}{4F7F}{7528} .gnu.hash)"
    ELSE IF h.gnu_hash_found /\ h.trad_hash_found
    THEN "{26A0}{FE0F}  {7ED3}{8BBA}: {540C}{65F6}{5B58}{5728} .gnu.hash {548C} .hash{FF0C}{53EF}{80FD}{672A}{4F7F}{7528} --hash-style=gnu"
    ELSE "{274C} {7ED3}{8BBA}: {672A}{627E}{5230} .gnu.hash{FF0C}-Wl,--hash-style=gnu {9009}{9879}{672A}{751F}{6548}"

RelaConclusion(r) ==
    IF r.android_rela_found
    THEN "{2705} {7ED3}{8BBA}: -Wl,--pack-dyn-relocs=android {9009}{9879}{5DF2}{751F}{6548} ({4F7F}{7528} ANDROID_RELA {683C}{5F0F})"
    ELSE IF r.traditional_rela_found
    THEN "{274C} {7ED3}{8BBA}: -Wl,--pack-dyn-relocs=android {9009}{9879}{672A}{751F}{6548} ({4F7F}{7528}{4F20}{7EDF} RELA {683C}{5F0F})"
    ELSE "{26A0}{FE0F}  {7ED3}{8BBA}: {672A}{627E}{5230} .rela.dyn {8282}{533A}{FF0C}{65E0}{6CD5}{786E}{5B9A}{91CD}{5B9A}{4F4D}{538B}{7F29}{72B6}{6001}"

HashSummary(h) ==
    IF h.gnu_hash_found /\ ~h.trad_hash_found
    THEN "   {2705} -Wl,--hash-style=gnu: {5DF2}{751F}{6548}"
    ELSE "   {274C} -Wl,--hash-style=gnu: {672A}{751F}{6548}"

RelaSummary(r) ==
    IF r.android_rela_found
    THEN "   {2705} -Wl,--pack-dyn-relocs=android: {5DF2}{751F}{6548}"
    ELSE "   {274C} -Wl,--pack-dyn-relocs=android: {672A}{751F}{6548}"

\* What main prints once readelf has answered.
OptionReport(h, r) ==
    <<"1. {68C0}{67E5} -Wl,--hash-style=gnu {9009}{9879}:">> \o h.printed \o <<HashConclusion(h), "">>
      \o <<"2. {68C0}{67E5} -Wl,--pack-dyn-relocs=android {9009}{9879}:">> \o r.printed
      \o <<RelaConclusion(r), Rule60, "{1F4CA} {6700}{7EC8}{603B}{7ED3}:", HashSummary(h), RelaSummary(r)>>

ReadelfPath == "/opt/android-ndk/toolchains/llvm/prebuilt/darwin-x86_64/bin/llvm-readelf"

\* main of check_android_so.py: the lines printed, the exit status, and the
\* flags found.
check_android_so(kind, tool_found, status, readelf_output) ==
    IF kind = "missing"
    THEN [lines |-> <<"{274C} {9519}{8BEF}: {6587}{4EF6} 'libdemo.so' {4E0D}{5B58}{5728}">>, status |-> 1, found |-> NotRun]
    ELSE IF ~tool_found
    THEN [lines |-> <<"{1F50D} {5F00}{59CB}{5206}{6790}{6587}{4EF6}: libdemo.so", Rule60,
                      "{274C} {627E}{4E0D}{5230} llvm-readelf {5DE5}{5177}{FF0C}{8BF7}{6307}{5B9A}NDK{8DEF}{5F84}{6216}{5B89}{88C5}Android NDK">>,
          status |-> 1, found |-> NotRun]
    ELSE IF status # "ok"
    THEN [lines |-> <<"{1F50D} {5F00}{59CB}{5206}{6790}{6587}{4EF6}: libdemo.so", Rule60,
                      "{1F4E6} {4F7F}{7528}{5DE5}{5177}: " \o ReadelfPath, Rule60,
                      IF status = "unavailable"
                      THEN "{274C} {627E}{4E0D}{5230} llvm-readelf {5DE5}{5177}: " \o ReadelfPath
                      ELSE "{274C} {8FD0}{884C} readelf {547D}{4EE4}{5931}{8D25}">>,
          status |-> 1, found |-> NotRun]
    ELSE [lines |-> <<"{1F50D} {5F00}{59CB}{5206}{6790}{6587}{4EF6}: libdemo.so", Rule60,
                      "{1F4E6} {4F7F}{7528}{5DE5}{5177}: " \o ReadelfPath, Rule60>>
                      \o OptionReport(analyze_hash_sections(readelf_output),
                                      analyze_relocation_sections(readelf_output)),
          status |-> 0,
          found |-> [gnu_hash_found  |-> analyze_hash_sections(readelf_output).gnu_hash_found,
                     trad_hash_found |-> analyze_hash_sections(readelf_output).trad_hash_found,
                     android_rela_found |->
                         analyze_relocation_sections(readelf_output).android_rela_found,
                     traditional_rela_found |->
                         analyze_relocation_sections(readelf_output).traditional_rela_found]]

InitCheckSo ==
    /\ pc = "check_so"
    /\ so_sections \in SectionTables
    /\ so_first_index \in FirstIndexes
    /\ so_header \in {"title", "full"}
    /\ readelf_S \in ToolStatus
    /\ path_kind \in {"missing", "so"}
    /\ llvm_readelf \in BOOLEAN
    /\ section_info = NotRun
    /\ hash_style = NotRun
    /\ relocation_packing = NotRun
    /\ files = EmptyDict
    /\ align_args = NotRun
    /\ align_result = NotRun
    /\ ndk_root = TRUE
    /\ nm_cmd = "ok"
    /\ readelf_d = "ok"
    /\ readelf_h = "ok"
    /\ compact = FALSE
    /\ output = FALSE
    /\ results = NotRun
    /\ sys_stdout = <<>>
    /\ exit_status = -1
    /\ AlignIdle
    /\ NdkIdle

CheckSoMain ==
    /\ pc = "check_so"
    /\ sys_stdout' = sys_stdout
           \o check_android_so(path_kind, llvm_readelf, readelf_S, ReadelfS_stdout).lines
    /\ exit_status' = check_android_so(path_kind, llvm_readelf, readelf_S, ReadelfS_stdout).status
    /\ results' = check_android_so(path_kind, llvm_readelf, readelf_S, ReadelfS_stdout).found
    /\ pc' = "exited"
    /\ UNCHANGED <<sectionVars, alignVars, ndkVars, runInputs>>

NextCheckSo == CheckSoMain

SpecCheckSo == InitCheckSo /\ [][NextCheckSo]_vars

\* The checker has printed its report.
CheckSoReported == pc = "exited" /\ "gnu_hash_found" \in DOMAIN results

InStdout(line) == \E i \in 1..Len(sys_stdout) : sys_stdout[i] = line

\* C30: a section-table row for .hash sets trad_hash_found, so a library
\* with both .hash and .gnu.hash is never reported as having
\* -Wl,--hash-style=gnu in effect, and for each option the conclusion
\* agrees with the line of the final summary.
C30_HashRowCountsAndSummaryAgrees ==
    CheckSoReported =>
        /\ HasRowNamed(".hash") => results.trad_hash_found
        /\ (HasRowNamed(".hash") /\ HasRowNamed(".gnu.hash")) =>
              /\ ~InStdout("   {2705} -Wl,--hash-style=gnu: {5DF2}{751F}{6548}")
              /\ ~InStdout("{2705} {7ED3}{8BBA}: -Wl,--hash-style=gnu {9009}{9879}{5DF2}{751F}{6548} ({4EC5}{4F7F}{7528} .gnu.hash)")
        /\ InStdout("{2705} {7ED3}{8BBA}: -Wl,--hash-style=gnu {9009}{9879}{5DF2}{751F}{6548} ({4EC5}{4F7F}{7528} .gnu.hash)")
              <=> InStdout("   {2705} -Wl,--hash-style=gnu: {5DF2}{751F}{6548}")
        /\ InStdout("{2705} {7ED3}{8BBA}: -Wl,--pack-dyn-relocs=android {9009}{9879}{5DF2}{751F}{6548} ({4F7F}{7528} ANDROID_RELA {683C}{5F0F})")
              <=> InStdout("   {2705} -Wl,--pack-dyn-relocs=android: {5DF2}{751F}{6548}")

====
